---- MODULE Spec2Model ----
(***************************************************************************)
(* rcpufetch: per-platform CPU-information extraction and normalization.   *)
(*                                                                         *)
(* Text is modelled as a sequence of one-character strings, so that        *)
(* parsing, suffix tests, lower-casing and substring search are computed   *)
(* as the Rust code computes them on ASCII text.  Option<T> and Result<T, String> are    *)
(* records: None / Some(v), Ok(v) / Err(e).                                *)
(***************************************************************************)
EXTENDS Integers, Sequences, FiniteSets, TLC

VARIABLES pc, os, src, res, out, err, args, logo, status

vars == <<pc, os, src, res, out, err, args, logo, status>>

(* pc  : position of the single-shot run: "start", "os" (flags handled),   *)
(*       "built", "shown", "failed" (constructor returned Err),            *)
(*       "reported", "panicked", "exited"; "counted" after the second      *)
(*       scan of a direct call                                              *)
(* os  : the platform variant that runs ("linux", "macos", "windows"), or  *)
(*       the name of the function under a direct call                      *)
(* src : what the platform's sources hold (files, sysctl keys, the JSON    *)
(*       printed by the inventory command), or the argument of the call    *)
(* res : the value returned (Result of the constructor, Option of a parse) *)
(* out : the lines printed on standard output: a line of text, an info     *)
(*       line (label and value), a wrapped flag line, or a row of the      *)
(*       side-by-side display (the logo line and the info beside it)       *)
(* err : the lines printed on the error stream                             *)
(* args : the parsed command line (struct Args of main.rs)                 *)
(* logo : what the logo lookup of the display returned, None before it     *)
(* status : the exit status of the process, None while it runs             *)

-----------------------------------------------------------------------------
(* Bounds of the model *)

MaxStrLen == 3

MaxBlocks == 2

MaxLines == 2

MaxFrags == 2

-----------------------------------------------------------------------------
(* Option, Result *)

None == [some |-> FALSE]

Some(v) == [some |-> TRUE, val |-> v]

Ok(v) == [ok |-> TRUE, val |-> v]

Err(e) == [ok |-> FALSE, err |-> e]

Pending == [pending |-> TRUE]

(* struct Args with no flag given *)
NoArgs == [no_logo |-> FALSE, logo |-> None, license |-> FALSE]

-----------------------------------------------------------------------------
(* str primitives of the Rust standard library, on character sequences *)

Digits == {"0", "1", "2", "3", "4", "5", "6", "7", "8", "9"}

DigitVal(c) ==
    CASE c = "0" -> 0 [] c = "1" -> 1 [] c = "2" -> 2 [] c = "3" -> 3
      [] c = "4" -> 4 [] c = "5" -> 5 [] c = "6" -> 6 [] c = "7" -> 7
      [] c = "8" -> 8 [] c = "9" -> 9

RECURSIVE DecimalValue(_)
DecimalValue(s) ==
    IF Len(s) = 0 THEN 0
    ELSE 10 * DecimalValue(SubSeq(s, 1, Len(s) - 1)) + DigitVal(s[Len(s)])

AllDigits(s) == \A i \in 1..Len(s) : s[i] \in Digits

(* str::parse::<u32>: an optional '+', then one or more decimal digits and  *)
(* nothing else.  The texts of the model have fewer than ten digits, so the *)
(* value always fits the 32 bits.                                           *)
parse_u32(s) ==
    LET body == IF Len(s) > 0 /\ s[1] = "+" THEN Tail(s) ELSE s
    IN  IF Len(body) > 0 /\ AllDigits(body)
        THEN Some(DecimalValue(body))
        ELSE None

ends_with(s, suf) ==
    /\ Len(s) >= Len(suf)
    /\ SubSeq(s, Len(s) - Len(suf) + 1, Len(s)) = suf

(* str::trim_end and str::trim; the only whitespace of a Text is " " *)
RECURSIVE trim_end(_)
trim_end(s) ==
    IF Len(s) > 0 /\ s[Len(s)] = " " THEN trim_end(SubSeq(s, 1, Len(s) - 1))
    ELSE s

RECURSIVE trim(_)
trim(s) ==
    IF Len(s) > 0 /\ s[1] = " " THEN trim(Tail(s)) ELSE trim_end(s)

contains(s, pat) ==
    \E i \in 1..(Len(s) - Len(pat) + 1) : SubSeq(s, i, i + Len(pat) - 1) = pat

(* char::to_lowercase on the characters of the model's texts, which are   *)
(* ASCII: each of A..Z maps to its lower-case letter, any other character  *)
(* to itself                                                                *)
LowerOf(c) ==
    CASE c = "A" -> "a" [] c = "B" -> "b" [] c = "C" -> "c" [] c = "D" -> "d"
      [] c = "E" -> "e" [] c = "F" -> "f" [] c = "G" -> "g" [] c = "H" -> "h"
      [] c = "I" -> "i" [] c = "J" -> "j" [] c = "K" -> "k" [] c = "L" -> "l"
      [] c = "M" -> "m" [] c = "N" -> "n" [] c = "O" -> "o" [] c = "P" -> "p"
      [] c = "Q" -> "q" [] c = "R" -> "r" [] c = "S" -> "s" [] c = "T" -> "t"
      [] c = "U" -> "u" [] c = "V" -> "v" [] c = "W" -> "w" [] c = "X" -> "x"
      [] c = "Y" -> "y" [] c = "Z" -> "z"
      [] OTHER -> c

to_lowercase(s) == [i \in 1..Len(s) |-> LowerOf(s[i])]

(* All sequences over S of length at most n *)
SeqsUpTo(S, n) == UNION {[1..k -> S] : k \in 0..n}

-----------------------------------------------------------------------------
(* LinuxCpuInfo::parse_cache_size *)

parse_cache_size_zero(size_str) ==
    LET r == IF ends_with(size_str, <<"K">>)
             THEN parse_u32(SubSeq(size_str, 1, Len(size_str) - 1))
             ELSE IF ends_with(size_str, <<"K", "B">>)
             THEN parse_u32(SubSeq(size_str, 1, Len(size_str) - 2))
             ELSE parse_u32(size_str)
    IN  IF r.some THEN r ELSE Some(0)

parse_cache_size(size_str) ==
    IF ends_with(size_str, <<"K">>)
    THEN parse_u32(SubSeq(size_str, 1, Len(size_str) - 1))
    ELSE IF ends_with(size_str, <<"K", "B">>)
    THEN parse_u32(SubSeq(size_str, 1, Len(size_str) - 2))
    ELSE parse_u32(size_str)

(* The size strings handed to parse_cache_size: every text of at most      *)
(* MaxStrLen characters over CacheChars, and the texts the documentation   *)
(* quotes.                                                                  *)
CacheChars == {"0", "2", "5", "K", "B", "M", "a", "+"}

QuotedSizes ==
    { <<"5", "1", "2", "K">>, <<"1", "0", "2", "4">>, <<"a", "b", "c">>,
      <<"2", "M">>, <<"3", "2", "K">>, <<"1", "6", "3", "8", "4", "K">>,
      <<"3", "2", "7", "6", "8", "K">>, <<"5", "1", "2", "K", "B">> }

SizeStrings == SeqsUpTo(CacheChars, MaxStrLen) \cup QuotedSizes

InitCacheSize ==
    /\ pc = "start"
    /\ os = "parse_cache_size"
    /\ src \in SizeStrings
    /\ res = Pending
    /\ out = <<>>
    /\ err = <<>>
    /\ args = NoArgs
    /\ logo = None
    /\ status = None

CallParseCacheSize ==
    /\ pc = "start"
    /\ os = "parse_cache_size"
    /\ res' = parse_cache_size(src)
    /\ pc' = "built"
    /\ UNCHANGED <<os, src, out, err, args, logo, status>>

NextCacheSize == CallParseCacheSize

SpecCacheSize == InitCacheSize /\ [][NextCacheSize]_vars

(* The shapes of size text the specification names: an optional sign, one  *)
(* or more digits, and an optional unit suffix.                             *)
IsNumber(s) ==
    LET body == IF Len(s) > 0 /\ s[1] = "+" THEN Tail(s) ELSE s
    IN  Len(body) > 0 /\ AllDigits(body)

UnitSuffixes == { <<>>, <<"K">>, <<"K", "B">>, <<"M">>, <<"M", "B">> }

Malformed(s) ==
    ~ \E u \in UnitSuffixes :
        /\ ends_with(s, u)
        /\ IsNumber(SubSeq(s, 1, Len(s) - Len(u)))

(* C4: parse_cache_size maps digits followed by "K" to the number, plain   *)
(* digits to the number, and a malformed text to None, never to Some(0).   *)
C4_KiloPlainMalformed ==
    (os = "parse_cache_size" /\ pc = "built") =>
        /\ (ends_with(src, <<"K">>) /\ Len(src) > 1
              /\ AllDigits(SubSeq(src, 1, Len(src) - 1)))
             => res = Some(DecimalValue(SubSeq(src, 1, Len(src) - 1)))
        /\ (Len(src) > 0 /\ AllDigits(src)) => res = Some(DecimalValue(src))
        /\ Malformed(src) => (res = None /\ res # Some(0))

C4_Witness ==
    /\ os = "parse_cache_size" /\ pc = "built"
    /\ src = <<"5", "1", "2", "K">>
    /\ res = Some(512)

(* C5: parse_cache_size maps digits followed by "M" to the number times    *)
(* 1024 ("2M" gives 2048).                                                  *)
C5_MegaTimes1024 ==
    (os = "parse_cache_size" /\ pc = "built"
       /\ ends_with(src, <<"M">>) /\ Len(src) > 1
       /\ AllDigits(SubSeq(src, 1, Len(src) - 1)))
      => res = Some(1024 * DecimalValue(SubSeq(src, 1, Len(src) - 1)))

-----------------------------------------------------------------------------
(* /proc/cpuinfo.  The content is a sequence of processor blocks (the       *)
(* pieces of content.split("\n\n")), a block is a sequence of its non-blank *)
(* lines, and a line is its key and value around the first ':', trimmed.    *)
(* A block with no line at all is a blank block.  A line whose key is none  *)
(* of the keys the parser matches stands for any other line.                *)

Line(k, v) == [key |-> k, value |-> v]

(* value.split_whitespace().next() *)
RECURSIVE first_token(_)
first_token(s) ==
    IF Len(s) = 0 THEN None
    ELSE IF s[1] = " " THEN first_token(Tail(s))
    ELSE LET stop == IF \E i \in 1..Len(s) : s[i] = " "
                     THEN (CHOOSE i \in 1..Len(s) :
                             s[i] = " " /\ \A j \in 1..(i - 1) : s[j] # " ") - 1
                     ELSE Len(s)
         IN  Some(SubSeq(s, 1, stop))

(* An f32 is its 24-bit mantissa and binary exponent, m * 2^e with         *)
(* 2^23 <= m < 2^24, or zero; every operation rounds to the nearest f32,   *)
(* ties to even, as the hardware does.  The values of the model are        *)
(* non-negative and neither subnormal nor infinite.                         *)
F32(m, e) == [m |-> m, e |-> e]

RECURSIVE Pow2(_)
Pow2(n) == IF n = 0 THEN 1 ELSE 2 * Pow2(n - 1)

RECURSIVE Pow10(_)
Pow10(n) == IF n = 0 THEN 1 ELSE 10 * Pow10(n - 1)

(* The nearest f32 of (q + r / d) * 2^e, with r < d: the quotient is       *)
(* shifted bit by bit until it has 24 bits, then rounded on the remainder  *)
RECURSIVE f32_round(_)
f32_round(st) ==
    IF st.q = 0 /\ st.r = 0 THEN F32(0, 0)
    ELSE IF st.q >= 16777216
    THEN f32_round([q |-> st.q \div 2, r |-> (st.q % 2) * st.d + st.r,
                    d |-> 2 * st.d, e |-> st.e + 1])
    ELSE IF st.q < 8388608
    THEN f32_round([q |-> 2 * st.q + (IF 2 * st.r >= st.d THEN 1 ELSE 0),
                    r |-> IF 2 * st.r >= st.d THEN 2 * st.r - st.d ELSE 2 * st.r,
                    d |-> st.d, e |-> st.e - 1])
    ELSE LET up == 2 * st.r > st.d \/ (2 * st.r = st.d /\ st.q % 2 = 1)
             m == IF up THEN st.q + 1 ELSE st.q
         IN  IF m = 16777216 THEN F32(8388608, st.e + 1) ELSE F32(m, st.e)

(* The nearest f32 of n / d: `n as f32` with d = 1, and the value of a     *)
(* decimal text n / 10^k                                                    *)
f32_of(n, d) == f32_round([q |-> n \div d, r |-> n % d, d |-> d, e |-> 0])

(* x / c for an integer constant c (1000.0, 1_000_000.0, 1024.0) *)
f32_div(x, c) ==
    f32_round([q |-> x.m \div c, r |-> x.m % c, d |-> c, e |-> x.e])

f32_le(a, b) ==
    IF a.m = 0 THEN TRUE
    ELSE IF b.m = 0 THEN FALSE
    ELSE a.e < b.e \/ (a.e = b.e /\ a.m <= b.m)

(* f32::max *)
f32_max(a, b) == IF f32_le(b, a) THEN a ELSE b

(* format!("{:.k}", x) with P = 10^k: the number of 1/P units printed, the *)
(* exact value x * P rounded to the nearest integer, ties to even.  The    *)
(* product m * P is kept as A * 4096 + B.                                   *)
f32_fixed(x, P) ==
    IF x.m = 0 THEN 0
    ELSE LET s == 0 - x.e
             B0 == (x.m % 4096) * P
             A == (x.m \div 4096) * P + B0 \div 4096
             B == B0 % 4096
         IN  IF s >= 43 THEN 0
             ELSE IF s > 12
             THEN LET t == s - 12
                      T0 == A \div Pow2(t)
                      rem == A % Pow2(t)
                      half == Pow2(t - 1)
                      up == \/ rem > half
                            \/ rem = half /\ B > 0
                            \/ rem = half /\ B = 0 /\ T0 % 2 = 1
                  IN  IF up THEN T0 + 1 ELSE T0
             ELSE IF s >= 1
             THEN LET T0 == A * Pow2(12 - s) + B \div Pow2(s)
                      rem == B % Pow2(s)
                      half == Pow2(s - 1)
                      up == rem > half \/ (rem = half /\ T0 % 2 = 1)
                  IN  IF up THEN T0 + 1 ELSE T0
             ELSE (A * 4096 + B) * Pow2(0 - s)

(* str::parse::<f32> on the texts of the model: digits with an optional     *)
(* fraction, correctly rounded; the texts carry no exponent, sign, "inf"    *)
(* or "nan".                                                                 *)
parse_f32(s) ==
    IF \E i \in 1..Len(s) : s[i] = "."
    THEN LET d == CHOOSE i \in 1..Len(s) :
                    s[i] = "." /\ \A j \in 1..(i - 1) : s[j] # "."
             whole == SubSeq(s, 1, d - 1)
             frac == SubSeq(s, d + 1, Len(s))
         IN  IF AllDigits(whole) /\ AllDigits(frac) /\ Len(whole) + Len(frac) > 0
             THEN Some(f32_of(DecimalValue(whole \o frac), Pow10(Len(frac))))
             ELSE None
    ELSE IF Len(s) > 0 /\ AllDigits(s) THEN Some(f32_of(DecimalValue(s), 1))
    ELSE None

Max(a, b) == IF a >= b THEN a ELSE b

(* The accumulators of parse_cpuinfo before the first block *)
ParseStart ==
    [model |-> <<>>, vendor |-> <<>>, flags |-> <<>>, cache_size |-> None,
     max_mhz |-> None, physical_ids |-> {}, core_ids |-> {},
     logical_cores |-> 0, current_physical_id |-> None,
     current_core_id |-> None]

(* One line of a block: the match on the key *)
parse_line_last(a, line) ==
    LET key == line.key
        value == line.value
    IN  CASE key = "model name" -> [a EXCEPT !.model = value]
          [] key = "vendor_id" -> [a EXCEPT !.vendor = value]
          [] key = "flags" ->
               IF Len(a.flags) = 0 THEN [a EXCEPT !.flags = value] ELSE a
          [] key = "cache size" ->
               IF ~a.cache_size.some /\ first_token(value).some
               THEN [a EXCEPT !.cache_size = parse_u32(first_token(value).val)]
               ELSE a
          [] key = "cpu MHz" ->
               IF parse_f32(value).some
               THEN [a EXCEPT !.max_mhz =
                       IF a.max_mhz.some
                       THEN Some(f32_max(a.max_mhz.val, parse_f32(value).val))
                       ELSE Some(parse_f32(value).val)]
               ELSE a
          [] key = "physical id" ->
               IF parse_u32(value).some
               THEN [a EXCEPT !.current_physical_id = Some(parse_u32(value).val)]
               ELSE a
          [] key = "core id" ->
               IF parse_u32(value).some
               THEN [a EXCEPT !.current_core_id = Some(parse_u32(value).val)]
               ELSE a
          [] OTHER -> a

parse_line_reset(a, line) ==
    LET key == line.key
        value == line.value
    IN  CASE key = "model name" ->
               IF Len(a.model) = 0 THEN [a EXCEPT !.model = value] ELSE a
          [] key = "vendor_id" ->
               IF Len(a.vendor) = 0 THEN [a EXCEPT !.vendor = value] ELSE a
          [] key = "flags" ->
               IF Len(a.flags) = 0 THEN [a EXCEPT !.flags = value] ELSE a
          [] key = "cache size" ->
               IF ~a.cache_size.some /\ first_token(value).some
               THEN [a EXCEPT !.cache_size = parse_u32(first_token(value).val)]
               ELSE a
          [] key = "cpu MHz" -> [a EXCEPT !.max_mhz = parse_f32(value)]
          [] key = "physical id" ->
               [a EXCEPT !.current_physical_id = parse_u32(value)]
          [] key = "core id" ->
               [a EXCEPT !.current_core_id = parse_u32(value)]
          [] OTHER -> a

parse_line(a, line) ==
    LET key == line.key
        value == line.value
    IN  CASE key = "model name" ->
               IF Len(a.model) = 0 THEN [a EXCEPT !.model = value] ELSE a
          [] key = "vendor_id" ->
               IF Len(a.vendor) = 0 THEN [a EXCEPT !.vendor = value] ELSE a
          [] key = "flags" ->
               IF Len(a.flags) = 0 THEN [a EXCEPT !.flags = value] ELSE a
          [] key = "cache size" ->
               IF ~a.cache_size.some /\ first_token(value).some
               THEN [a EXCEPT !.cache_size = parse_u32(first_token(value).val)]
               ELSE a
          [] key = "cpu MHz" ->
               IF parse_f32(value).some
               THEN [a EXCEPT !.max_mhz =
                       IF a.max_mhz.some
                       THEN Some(f32_max(a.max_mhz.val, parse_f32(value).val))
                       ELSE Some(parse_f32(value).val)]
               ELSE a
          [] key = "physical id" ->
               IF parse_u32(value).some
               THEN [a EXCEPT !.current_physical_id = Some(parse_u32(value).val)]
               ELSE a
          [] key = "core id" ->
               IF parse_u32(value).some
               THEN [a EXCEPT !.current_core_id = Some(parse_u32(value).val)]
               ELSE a
          [] OTHER -> a

(* for line in processor_block.lines(): the loop state is the accumulators *)
(* and the lines still to come                                              *)
RECURSIVE scan_lines(_)
scan_lines(st) ==
    IF Len(st.rest) = 0 THEN st.acc
    ELSE scan_lines([acc |-> parse_line(st.acc, Head(st.rest)),
                     rest |-> Tail(st.rest)])

parse_lines(a, lines) == scan_lines([acc |-> a, rest |-> lines])

parse_block_blank(a, block) ==
    LET b == parse_lines([a EXCEPT !.logical_cores = @ + 1,
                                   !.current_physical_id = None,
                                   !.current_core_id = None], block)
        ids == IF b.current_physical_id.some
               THEN b.physical_ids \cup {b.current_physical_id.val}
               ELSE b.physical_ids
        pairs == IF b.current_physical_id.some /\ b.current_core_id.some
                 THEN b.core_ids \cup {<<b.current_physical_id.val,
                                         b.current_core_id.val>>}
                 ELSE b.core_ids
    IN  [b EXCEPT !.physical_ids = ids, !.core_ids = pairs]

(* One processor block: skipped when blank, else counted, scanned, and its  *)
(* ids entered into the two sets.                                           *)
parse_block(a, block) ==
    IF Len(block) = 0 THEN a
    ELSE LET b == parse_lines([a EXCEPT !.logical_cores = @ + 1,
                                        !.current_physical_id = None,
                                        !.current_core_id = None], block)
             ids == IF b.current_physical_id.some
                    THEN b.physical_ids \cup {b.current_physical_id.val}
                    ELSE b.physical_ids
             pairs == IF b.current_physical_id.some /\ b.current_core_id.some
                      THEN b.core_ids \cup {<<b.current_physical_id.val,
                                              b.current_core_id.val>>}
                      ELSE b.core_ids
         IN  [b EXCEPT !.physical_ids = ids, !.core_ids = pairs]

(* for processor_block in content.split("\n\n") *)
RECURSIVE scan_blocks(_)
scan_blocks(st) ==
    IF Len(st.rest) = 0 THEN st.acc
    ELSE scan_blocks([acc |-> parse_block(st.acc, Head(st.rest)),
                      rest |-> Tail(st.rest)])

parse_blocks(a, blocks) == scan_blocks([acc |-> a, rest |-> blocks])

(* The physical core count from the two id sets *)
physical_cores_blockcount(a) == a.logical_cores

physical_cores_packages(a) ==
    IF a.physical_ids # {} THEN Cardinality(a.physical_ids)
    ELSE IF a.core_ids # {} THEN Cardinality(a.core_ids)
    ELSE 1

physical_cores_default(a) ==
    IF a.core_ids # {} THEN Cardinality(a.core_ids) ELSE 1

physical_cores_of(a) ==
    IF a.core_ids # {} THEN Cardinality(a.core_ids)
    ELSE IF a.physical_ids # {} THEN Cardinality(a.physical_ids)
    ELSE 1

(* LinuxCpuInfo::parse_cpuinfo: always Ok *)
parse_cpuinfo(content) ==
    LET a == parse_blocks(ParseStart, content)
        physical_cores == physical_cores_of(a)
    IN  Ok([model |-> a.model,
            vendor |-> a.vendor,
            flags |-> a.flags,
            physical_cores |-> physical_cores,
            logical_cores |-> a.logical_cores,
            max_mhz |-> IF a.max_mhz.some THEN Some(f32_div(a.max_mhz.val, 1000))
                        ELSE None,
            l1d_size |-> None,
            l1i_size |-> None,
            l2_size |-> IF a.cache_size.some
                        THEN Some(<<a.cache_size.val,
                                    a.cache_size.val * physical_cores>>)
                        ELSE None,
            l3_size |-> None])

-----------------------------------------------------------------------------
(* parse_cpuinfo called on /proc/cpuinfo-style contents *)

IdValues == { <<"0">>, <<"1">>, <<"x">> }

TopoLines ==
    {Line("physical id", v) : v \in IdValues}
      \cup {Line("core id", v) : v \in IdValues}
      \cup {Line("bogomips", <<"1">>)}

TopoBlocks == SeqsUpTo(TopoLines, MaxLines)

(* Blocks of one line, and blocks that carry one identity pair *)
IdBlocks ==
    {<<>>} \cup {<<l>> : l \in TopoLines}
      \cup {<<Line("physical id", p), Line("core id", c)>> :
               p \in {<<"0">>, <<"1">>}, c \in {<<"0">>, <<"1">>}}

(* Up to MaxBlocks short blocks, or one or two blocks of up to MaxLines    *)
(* lines each                                                               *)
TopoContents ==
    SeqsUpTo(IdBlocks, MaxBlocks)
      \cup {<<a>> : a \in TopoBlocks}
      \cup {<<a, b>> : a \in TopoBlocks, b \in TopoBlocks}

(* Lines of the text fields, with empty and unparseable values *)
FieldLines ==
    {Line("model name", v) : v \in {<<>>, <<"A">>, <<"B">>}}
      \cup {Line("vendor_id", v) : v \in {<<>>, <<"A">>, <<"B">>}}
      \cup {Line("cache size", v) : v \in {<<"8", " ", "K", "B">>, <<"x">>}}
      \cup {Line("cpu MHz", v) : v \in {<<"1", ".", "5">>, <<"x">>}}

FieldBlocks == SeqsUpTo(FieldLines, MaxLines)

(* One block of up to MaxLines field lines, alone or beside a one-line block *)
FieldContents ==
    {<<a>> : a \in FieldBlocks}
      \cup {<<a, <<l>>>> : a \in FieldBlocks, l \in FieldLines}
      \cup {<<<<l>>, a>> : a \in FieldBlocks, l \in FieldLines}

InitParse ==
    /\ pc = "start"
    /\ os = "parse_cpuinfo"
    /\ src \in TopoContents \cup FieldContents
    /\ res = Pending
    /\ out = <<>>
    /\ err = <<>>
    /\ args = NoArgs
    /\ logo = None
    /\ status = None

CallParseCpuinfo ==
    /\ pc = "start"
    /\ os = "parse_cpuinfo"
    /\ res' = parse_cpuinfo(src)
    /\ pc' = "built"
    /\ UNCHANGED <<os, src, out, err, args, logo, status>>

(* What a reader of the content observes, stated without the parser's      *)
(* accumulators: the id a block carries is the last parseable value among  *)
(* its lines of that key.                                                   *)
IdOf(block, key) ==
    LET at == {i \in 1..Len(block) :
                 block[i].key = key /\ IsNumber(block[i].value)}
    IN  IF at = {} THEN None
        ELSE parse_u32(block[CHOOSE i \in at : \A j \in at : j <= i].value)

PairsObserved(content) ==
    { <<IdOf(content[i], "physical id").val, IdOf(content[i], "core id").val>> :
        i \in {j \in 1..Len(content) :
                 /\ IdOf(content[j], "physical id").some
                 /\ IdOf(content[j], "core id").some} }

PackagesObserved(content) ==
    { IdOf(content[i], "physical id").val :
        i \in {j \in 1..Len(content) : IdOf(content[j], "physical id").some} }

NonBlankBlocks(content) ==
    Cardinality({i \in 1..Len(content) : Len(content[i]) > 0})

ParseDone == os = "parse_cpuinfo" /\ pc = "built"

(* C1: when at least one block carries both ids, physical_cores is the     *)
(* number of distinct (physical id, core id) pairs, whatever the number of *)
(* blocks.                                                                  *)
C1_PhysicalIsDistinctPairs ==
    (ParseDone /\ PairsObserved(src) # {})
      => (res.ok /\ res.val.physical_cores = Cardinality(PairsObserved(src)))

C1_Witness ==
    /\ ParseDone
    /\ Len(src) = 2
    /\ \A i \in 1..2 : /\ IdOf(src[i], "physical id") = Some(0)
                        /\ IdOf(src[i], "core id") = Some(1)
    /\ res.val.physical_cores = 1
    /\ res.val.logical_cores = 2

(* C2 as stated: with no identity pair and M non-blank blocks,             *)
(* physical_cores is 1 and logical_cores is M.                              *)
C2_Original ==
    (ParseDone /\ PairsObserved(src) = {})
      => /\ res.val.physical_cores = 1
         /\ res.val.logical_cores = NonBlankBlocks(src)

(* C2 amended: with no identity pair and M non-blank blocks, logical_cores *)
(* is M, and physical_cores is 1 when no block carries a package id and    *)
(* the number of distinct package ids otherwise.                            *)
C2_NoPairsFallback ==
    (ParseDone /\ PairsObserved(src) = {})
      => /\ res.ok
         /\ res.val.logical_cores = NonBlankBlocks(src)
         /\ res.val.physical_cores =
              IF PackagesObserved(src) = {} THEN 1
              ELSE Cardinality(PackagesObserved(src))

C2_Witness ==
    /\ ParseDone
    /\ PairsObserved(src) = {}
    /\ PackagesObserved(src) = {}
    /\ Len(src) = 2 /\ NonBlankBlocks(src) = 1
    /\ res.val.physical_cores = 1
    /\ res.val.logical_cores = 1

(* C22: with no block carrying both ids, physical_cores is the number of   *)
(* distinct parseable package ids when there is one, and with no parseable *)
(* package id at all physical_cores is 1.                                   *)
C22_FallbackChain ==
    ParseDone =>
        /\ (PairsObserved(src) = {} /\ PackagesObserved(src) # {})
             => res.val.physical_cores = Cardinality(PackagesObserved(src))
        /\ PackagesObserved(src) = {} => res.val.physical_cores = 1

C22_Witness ==
    /\ ParseDone
    /\ PairsObserved(src) = {}
    /\ PackagesObserved(src) = {0, 1}
    /\ \E i \in 1..Len(src) : \E j \in 1..Len(src[i]) :
          src[i][j].key = "core id"
    /\ res.val.physical_cores = 2

(* The positions <<block, line>> of a content, in source order *)
Positions(content) ==
    UNION {{<<i, j>> : j \in 1..Len(content[i])} : i \in 1..Len(content)}

Before(p, q) == p[1] < q[1] \/ (p[1] = q[1] /\ p[2] < q[2])

(* The first non-empty value of a key in source order, else the empty text *)
FirstNonEmpty(content, key) ==
    LET at == {p \in Positions(content) :
                 /\ content[p[1]][p[2]].key = key
                 /\ Len(content[p[1]][p[2]].value) > 0}
    IN  IF at = {} THEN <<>>
        ELSE LET p == CHOOSE q \in at : \A r \in at : r = q \/ Before(q, r)
             IN  content[p[1]][p[2]].value

(* C23: model and vendor are each the first non-empty value of their key   *)
(* in source order: a later value never replaces it and an earlier empty   *)
(* value does not block it.                                                 *)
C23_FirstNonEmpty ==
    ParseDone =>
        /\ res.val.model = FirstNonEmpty(src, "model name")
        /\ res.val.vendor = FirstNonEmpty(src, "vendor_id")

C23_Witness ==
    /\ ParseDone
    /\ Len(src) = 2 /\ Len(src[1]) = 2
    /\ src[1][1] = Line("model name", <<>>)
    /\ src[1][2] = Line("model name", <<"A">>)
    /\ src[2][1] = Line("model name", <<"B">>)
    /\ res.val.model = <<"A">>

(* The lines whose value the parser cannot read *)
MalformedAt(content) ==
    {p \in Positions(content) :
       LET l == content[p[1]][p[2]]
       IN  \/ l.key \in {"physical id", "core id"} /\ ~parse_u32(l.value).some
           \/ l.key = "cpu MHz" /\ ~parse_f32(l.value).some
           \/ /\ l.key = "cache size"
              /\ \/ ~first_token(l.value).some
                 \/ ~parse_u32(first_token(l.value).val).some}

RemoveLine(content, p) ==
    [content EXCEPT ![p[1]] = SubSeq(@, 1, p[2] - 1) \o SubSeq(@, p[2] + 1, Len(@))]

(* C24 as stated: a malformed line leaves every field as if the line were  *)
(* missing from the input.                                                  *)
C24_Original ==
    ParseDone =>
        \A p \in MalformedAt(src) :
            res.ok /\ res = parse_cpuinfo(RemoveLine(src, p))

(* C24 amended: a malformed line leaves every field as if the line were    *)
(* missing, except that a block made of only that line is still counted as *)
(* one logical unit.                                                        *)
C24_FieldIndependence ==
    ParseDone =>
        \A p \in MalformedAt(src) :
            /\ res.ok
            /\ res.val =
                 IF Len(src[p[1]]) > 1
                 THEN parse_cpuinfo(RemoveLine(src, p)).val
                 ELSE [parse_cpuinfo(RemoveLine(src, p)).val
                         EXCEPT !.logical_cores = @ + 1]

C24_Witness ==
    /\ ParseDone
    /\ \E p \in MalformedAt(src) :
          /\ Len(src[p[1]]) > 1
          /\ src[p[1]][p[2]].key = "cache size"
    /\ res.val.model = <<"A">>
    /\ res.val.l2_size = Some(<<8, 8>>)

-----------------------------------------------------------------------------
(* Literal texts of the sources *)

STR_Intel == <<"I", "n", "t", "e", "l">>

STR_AMD == <<"A", "M", "D">>

STR_Apple == <<"A", "p", "p", "l", "e">>

STR_Unknown == <<"U", "n", "k", "n", "o", "w", "n">>

STR_GenuineIntel == <<"G", "e", "n", "u", "i", "n", "e", "I", "n", "t", "e", "l">>

STR_AuthenticAMD == <<"A", "u", "t", "h", "e", "n", "t", "i", "c", "A", "M", "D">>

STR_UnknownCPU == <<"U", "n", "k", "n", "o", "w", "n", " ", "C", "P", "U">>

STR_intel == <<"i", "n", "t", "e", "l">>

STR_amd == <<"a", "m", "d">>

STR_apple == <<"a", "p", "p", "l", "e">>

STR_cpu == <<"c", "p", "u">>

STR_index == <<"i", "n", "d", "e", "x">>

starts_with(s, pre) ==
    /\ Len(s) >= Len(pre)
    /\ SubSeq(s, 1, Len(pre)) = pre

-----------------------------------------------------------------------------
(* LinuxCpuInfo::get_max_frequency.  The directory /sys/devices/system/cpu *)
(* is None when it cannot be listed, else the sequence of its entries in   *)
(* listing order; an entry is its name and the content of its              *)
(* cpufreq/scaling_max_freq file (None when that file cannot be read).     *)

parse_u64(s) == parse_u32(s)

RECURSIVE max_freq_of(_, _)
max_freq_of(max_freq, entries) ==
    IF Len(entries) = 0 THEN max_freq
    ELSE LET e == Head(entries)
             name_ok == /\ starts_with(e.name, STR_cpu)
                        /\ AllDigits(SubSeq(e.name, 4, Len(e.name)))
             freq == IF e.scaling_max_freq.some
                     THEN parse_u64(e.scaling_max_freq.val)
                     ELSE None
         IN  max_freq_of(IF name_ok /\ freq.some
                         THEN Max(max_freq, freq.val) ELSE max_freq,
                         Tail(entries))

get_max_frequency_zero_ok(cpu_dir) ==
    IF cpu_dir.some /\ max_freq_of(0, cpu_dir.val) >= 0
    THEN Some(f32_div(f32_of(max_freq_of(0, cpu_dir.val), 1), 1000000))
    ELSE None

(* kHz to GHz: max_freq as f32 / 1_000_000.0 *)
get_max_frequency(cpu_dir) ==
    IF cpu_dir.some /\ max_freq_of(0, cpu_dir.val) > 0
    THEN Some(f32_div(f32_of(max_freq_of(0, cpu_dir.val), 1), 1000000))
    ELSE None

-----------------------------------------------------------------------------
(* LinuxCpuInfo::get_physical_core_count: the second scan of /proc/cpuinfo *)

count_line(a, line) ==
    CASE line.key = "physical id" ->
           IF parse_u32(line.value).some
           THEN [a EXCEPT !.current_physical_id = Some(parse_u32(line.value).val)]
           ELSE a
      [] line.key = "core id" ->
           IF parse_u32(line.value).some
           THEN [a EXCEPT !.current_core_id = Some(parse_u32(line.value).val)]
           ELSE a
      [] OTHER -> a

RECURSIVE count_scan_lines(_)
count_scan_lines(st) ==
    IF Len(st.rest) = 0 THEN st.acc
    ELSE count_scan_lines([acc |-> count_line(st.acc, Head(st.rest)),
                           rest |-> Tail(st.rest)])

count_lines(a, lines) == count_scan_lines([acc |-> a, rest |-> lines])

count_block(a, block) ==
    IF Len(block) = 0 THEN a
    ELSE LET b == count_lines([a EXCEPT !.current_physical_id = None,
                                        !.current_core_id = None], block)
             ids == IF b.current_physical_id.some
                    THEN b.physical_ids \cup {b.current_physical_id.val}
                    ELSE b.physical_ids
             pairs == IF b.current_physical_id.some /\ b.current_core_id.some
                      THEN b.core_ids \cup {<<b.current_physical_id.val,
                                              b.current_core_id.val>>}
                      ELSE b.core_ids
         IN  [b EXCEPT !.physical_ids = ids, !.core_ids = pairs]

RECURSIVE count_scan_blocks(_)
count_scan_blocks(st) ==
    IF Len(st.rest) = 0 THEN st.acc
    ELSE count_scan_blocks([acc |-> count_block(st.acc, Head(st.rest)),
                            rest |-> Tail(st.rest)])

count_blocks(a, blocks) == count_scan_blocks([acc |-> a, rest |-> blocks])

get_physical_core_count_nofallback(cpuinfo) ==
    IF ~cpuinfo.some THEN None
    ELSE LET a == count_blocks([physical_ids |-> {}, core_ids |-> {},
                                current_physical_id |-> None,
                                current_core_id |-> None], cpuinfo.val)
         IN  IF a.core_ids # {} THEN Some(Cardinality(a.core_ids))
             ELSE Some(1)

(* cpuinfo is None when /proc/cpuinfo cannot be read *)
get_physical_core_count(cpuinfo) ==
    IF ~cpuinfo.some THEN None
    ELSE LET a == count_blocks([physical_ids |-> {}, core_ids |-> {},
                                current_physical_id |-> None,
                                current_core_id |-> None], cpuinfo.val)
         IN  IF a.core_ids # {} THEN Some(Cardinality(a.core_ids))
             ELSE IF a.physical_ids # {} THEN Some(Cardinality(a.physical_ids))
             ELSE Some(1)

(* get_cache_info's scan of the same content, after the record's *)
CallGetPhysicalCoreCount ==
    /\ pc = "built"
    /\ os = "parse_cpuinfo"
    /\ out' = get_physical_core_count(Some(src))
    /\ pc' = "counted"
    /\ UNCHANGED <<os, src, res, err, args, logo, status>>

NextParse == CallParseCpuinfo \/ CallGetPhysicalCoreCount

SpecParse == InitParse /\ [][NextParse]_vars

-----------------------------------------------------------------------------
(* LinuxCpuInfo::get_cache_info.  The directory cpu0/cache is None when it *)
(* cannot be listed, else the sequence of its entries in listing order; an *)
(* entry is its name and the contents of its level, type and size files    *)
(* (None when the file cannot be read), trimmed.                            *)

CacheKey(level, type) == <<level, type>>

L1_Data == CacheKey(<<"1">>, <<"D", "a", "t", "a">>)

L1_Instruction ==
    CacheKey(<<"1">>, <<"I", "n", "s", "t", "r", "u", "c", "t", "i", "o", "n">>)

L2_Unified == CacheKey(<<"2">>, <<"U", "n", "i", "f", "i", "e", "d">>)

L3_Unified == CacheKey(<<"3">>, <<"U", "n", "i", "f", "i", "e", "d">>)

(* The HashMap cache_sizes after the scan: a later insert of a key         *)
(* replaces the earlier one                                                 *)
RECURSIVE cache_sizes_of(_, _)
cache_sizes_of(m, entries) ==
    IF Len(entries) = 0 THEN m
    ELSE LET e == Head(entries)
             readable == /\ starts_with(e.name, STR_index)
                         /\ e.level.some /\ e.type.some /\ e.size.some
             size_kb == IF readable THEN parse_cache_size(e.size.val) ELSE None
         IN  cache_sizes_of(IF size_kb.some
                            THEN (CacheKey(e.level.val, e.type.val) :> size_kb.val) @@ m
                            ELSE m,
                            Tail(entries))

cache_get(m, key) == IF key \in DOMAIN m THEN Some(m[key]) ELSE None

EmptyMap == [k \in {} |-> 0]

(* The totals handed back: L1d, L1i and L2 are per core and multiplied by   *)
(* the physical core count, L3 is shared and kept; each is stored as the   *)
(* pair (0, total)                                                          *)
cache_totals_allmul(cache_sizes, physical_cores) ==
    LET mul(o) == IF o.some THEN Some(<<0, o.val * physical_cores>>) ELSE None
    IN  Some([l1d |-> mul(cache_get(cache_sizes, L1_Data)),
              l1i |-> mul(cache_get(cache_sizes, L1_Instruction)),
              l2 |-> mul(cache_get(cache_sizes, L2_Unified)),
              l3 |-> mul(cache_get(cache_sizes, L3_Unified))])

cache_totals(cache_sizes, physical_cores) ==
    LET mul(o) == IF o.some THEN Some(<<0, o.val * physical_cores>>) ELSE None
        keep(o) == IF o.some THEN Some(<<0, o.val>>) ELSE None
    IN  Some([l1d |-> mul(cache_get(cache_sizes, L1_Data)),
              l1i |-> mul(cache_get(cache_sizes, L1_Instruction)),
              l2 |-> mul(cache_get(cache_sizes, L2_Unified)),
              l3 |-> keep(cache_get(cache_sizes, L3_Unified))])

unwrap_or_1(count) == IF count.some THEN count.val ELSE 1

get_cache_info(cache_dir, cpuinfo) ==
    cache_totals(IF cache_dir.some
                 THEN cache_sizes_of(EmptyMap, cache_dir.val)
                 ELSE EmptyMap,
                 unwrap_or_1(get_physical_core_count(cpuinfo)))

get_byte_order(little) ==
    IF little
    THEN <<"L", "i", "t", "t", "l", "e", " ", "E", "n", "d", "i", "a", "n">>
    ELSE <<"B", "i", "g", " ", "E", "n", "d", "i", "a", "n">>

(* LinuxCpuInfo::new on the sources s: the Result it returns.              *)
(* s.cpuinfo is None when /proc/cpuinfo cannot be read; s.uname tells      *)
(* whether uname could be spawned, its exit status and its trimmed output. *)
LinuxCpuInfo_fields(s, parsed_info, freq, cache) ==
    Ok([model |-> parsed_info.model,
        vendor |-> parsed_info.vendor,
        architecture |-> s.uname.stdout,
        byte_order |-> get_byte_order(s.little_endian),
        flags |-> parsed_info.flags,
        physical_cores |-> parsed_info.physical_cores,
        logical_cores |-> parsed_info.logical_cores,
        max_mhz |-> IF freq.some THEN freq ELSE parsed_info.max_mhz,
        l1d_size |-> IF cache.some THEN cache.val.l1d ELSE parsed_info.l1d_size,
        l1i_size |-> IF cache.some THEN cache.val.l1i ELSE parsed_info.l1i_size,
        l2_size |-> IF cache.some THEN cache.val.l2 ELSE parsed_info.l2_size,
        l3_size |-> IF cache.some THEN cache.val.l3 ELSE parsed_info.l3_size])

parsed_then(s, parsed) ==
    IF ~parsed.ok THEN parsed
    ELSE LinuxCpuInfo_fields(s, parsed.val,
                             get_max_frequency(s.cpu_dir),
                             get_cache_info(s.cache_dir, s.cpuinfo))

LinuxCpuInfo_new(s) ==
    IF ~s.cpuinfo.some THEN Err("Failed to read /proc/cpuinfo")
    ELSE IF ~s.uname.ran THEN Err("Failed to get architecture")
    ELSE parsed_then(s, parse_cpuinfo(s.cpuinfo.val))

-----------------------------------------------------------------------------
(* Printed lines.  A line is its label and its formatted value; the value  *)
(* keeps the format that produced it (plain text, the literal "Unknown",   *)
(* "{:.3} GHz", "{}KB", "{:.1}MB", ...).                                    *)

InfoLine(label, text) == [label |-> label, text |-> text]

Text(s) == [kind |-> "text", s |-> s]

UnknownText == Text(STR_Unknown)

(* format!("{:.3} GHz", ghz): the thousandths of a GHz printed *)
GHz3(ghz) == [kind |-> "{:.3} GHz", milli |-> f32_fixed(ghz, 1000)]

(* format!("{:.2} MHz", mhz): the hundredths of a MHz printed *)
MHz2(mhz) == [kind |-> "{:.2} MHz", centi |-> f32_fixed(mhz, 100)]

CoresText(p, l) == [kind |-> "{} cores ({} threads)", physical |-> p, logical |-> l]

(* format_cache_size: "{}KB" below 1000 KB, else "{:.1}MB" of             *)
(* size_kb as f32 / 1024.0, the tenths of a MB printed                      *)
format_cache_size(size_kb) ==
    IF size_kb >= 1000
    THEN [kind |-> "{:.1}MB",
          tenths |-> f32_fixed(f32_div(f32_of(size_kb, 1), 1024), 10)]
    ELSE [kind |-> "{}KB", kb |-> size_kb]

TotalText(size) ==
    IF size.some THEN format_cache_size(size.val[2]) ELSE UnknownText

(* LinuxCpuInfo::display_info: the info lines it builds *)
linux_info_lines(r) ==
    << InfoLine("Name", Text(r.model)),
       InfoLine("Architecture", Text(r.architecture)),
       InfoLine("Byte Order", Text(r.byte_order)),
       InfoLine("Vendor", Text(r.vendor)),
       InfoLine("Max Frequency",
                IF r.max_mhz.some THEN GHz3(r.max_mhz.val) ELSE UnknownText),
       InfoLine("Cores", CoresText(r.physical_cores, r.logical_cores)),
       InfoLine("L1i Size", TotalText(r.l1i_size)),
       InfoLine("L1d Size", TotalText(r.l1d_size)),
       InfoLine("L1 Size",
                IF r.l1i_size.some /\ r.l1d_size.some
                THEN format_cache_size(r.l1i_size.val[2] + r.l1d_size.val[2])
                ELSE IF r.l1i_size.some THEN format_cache_size(r.l1i_size.val[2])
                ELSE IF r.l1d_size.some THEN format_cache_size(r.l1d_size.val[2])
                ELSE UnknownText),
       InfoLine("L2 Size", TotalText(r.l2_size)),
       InfoLine("L3 Size", TotalText(r.l3_size)) >>

-----------------------------------------------------------------------------
(* macOS.  s.sysctl_ran tells whether sysctl can be spawned; s.sysctl maps *)
(* a key to the standard output of `sysctl -n key` as the command wrote    *)
(* it, or to None when the command exits non-zero.                          *)

get_sysctl_string(s, key) ==
    IF ~s.sysctl_ran THEN Err("Failed to execute sysctl")
    ELSE IF s.sysctl[key].some
    THEN Ok(trim(s.sysctl[key].val))
    ELSE Err([msg |-> "sysctl command failed for key: ", key |-> key])

get_sysctl_u32(s, key) ==
    LET value_str == get_sysctl_string(s, key)
    IN  IF ~value_str.ok THEN value_str
        ELSE IF parse_u32(value_str.val).some
        THEN Ok(parse_u32(value_str.val).val)
        ELSE Err("Failed to parse as u32")

get_architecture(s) ==
    IF ~s.uname.ran THEN Err("Failed to execute uname")
    ELSE IF s.uname.success THEN Ok(s.uname.stdout)
    ELSE Err("uname command failed")

(* str::split_whitespace *)
RECURSIVE split_whitespace(_)
split_whitespace(s) ==
    IF ~first_token(s).some THEN <<>>
    ELSE LET lead == CHOOSE i \in 1..Len(s) :
                       s[i] # " " /\ \A j \in 1..(i - 1) : s[j] = " "
             tok == first_token(s).val
         IN  <<tok>> \o split_whitespace(SubSeq(s, lead + Len(tok), Len(s)))

unwrap_or(r, d) == IF r.ok THEN r.val ELSE d

(* One level of MacOSCpuInfo::get_cache_info: entry i (from 0) of          *)
(* hw.cachesize and of hw.cacheconfig                                       *)
mac_cache_level(size_parts, config_parts, i) ==
    IF Len(size_parts) >= i + 1 /\ Len(config_parts) >= i + 1
    THEN LET sz == parse_u32(size_parts[i + 1])
             ct == parse_u32(config_parts[i + 1])
             size_bytes == IF sz.some THEN sz.val ELSE 0
             count == IF ct.some THEN ct.val ELSE 0
         IN  IF size_bytes > 0 /\ count > 0
             THEN Some(<<size_bytes \div 1024, count>>)
             ELSE None
    ELSE None

mac_get_cache_info(s) ==
    LET size_parts == split_whitespace(unwrap_or(get_sysctl_string(s, "hw.cachesize"), <<>>))
        config_parts == split_whitespace(unwrap_or(get_sysctl_string(s, "hw.cacheconfig"), <<>>))
        l3 == mac_cache_level(size_parts, config_parts, 3)
        perf0_l2 == get_sysctl_u32(s, "hw.perflevel0.l2cachesize")
        perf1_l2 == get_sysctl_u32(s, "hw.perflevel1.l2cachesize")
    IN  [l1 |-> mac_cache_level(size_parts, config_parts, 1),
         l2 |-> mac_cache_level(size_parts, config_parts, 2),
         l3 |-> IF ~l3.some /\ perf0_l2.ok /\ perf1_l2.ok
                   /\ perf0_l2.val # perf1_l2.val
                THEN Some(<<Max(perf0_l2.val, perf1_l2.val) \div 1024, 1>>)
                ELSE l3]

(* Vec::join(",") *)
RECURSIVE join_comma(_)
join_comma(names) ==
    IF Len(names) = 0 THEN <<>>
    ELSE IF Len(names) = 1 THEN names[1]
    ELSE names[1] \o <<",">> \o join_comma(Tail(names))

(* get_cpu_flags: s.optional_arm is None when `sysctl hw.optional.arm.`    *)
(* exits non-zero, else its "key: value" lines; a line is the rest of its key after *)
(* the prefix "hw.optional.arm." (None without the prefix) and its value.  *)
RECURSIVE enabled_flags(_)
enabled_flags(lines) ==
    IF Len(lines) = 0 THEN <<>>
    ELSE (IF Head(lines).value = <<"1">> /\ Head(lines).flag_name.some
          THEN <<Head(lines).flag_name.val>> ELSE <<>>)
         \o enabled_flags(Tail(lines))

get_cpu_flags(s) ==
    IF s.sysctl_ran /\ s.optional_arm.some THEN join_comma(enabled_flags(s.optional_arm.val))
    ELSE <<>>

mac_vendor_sensitive(model) ==
    IF contains(model, STR_Intel) THEN STR_Intel
    ELSE IF contains(model, STR_AMD) THEN STR_AMD
    ELSE IF contains(model, STR_Apple) THEN STR_Apple
    ELSE STR_Unknown

(* Determine vendor from brand string (macos.rs) *)
mac_vendor(model) ==
    IF contains(to_lowercase(model), STR_intel) THEN STR_Intel
    ELSE IF contains(to_lowercase(model), STR_amd) THEN STR_AMD
    ELSE IF contains(to_lowercase(model), STR_apple) THEN STR_Apple
    ELSE STR_Unknown

mac_byte_order(s) ==
    LET order == get_sysctl_string(s, "hw.byteorder")
    IN  IF ~order.ok THEN STR_Unknown
        ELSE IF order.val = <<"1", "2", "3", "4">> THEN get_byte_order(TRUE)
        ELSE IF order.val = <<"4", "3", "2", "1">> THEN get_byte_order(FALSE)
        ELSE STR_Unknown \o <<" ", "(">> \o order.val \o <<")">>

(* MacOSCpuInfo::new *)
MacOSCpuInfo_new(s) ==
    LET model == get_sysctl_string(s, "machdep.cpu.brand_string")
        architecture == get_architecture(s)
        physical_cores ==
            unwrap_or(get_sysctl_u32(s, "machdep.cpu.core_count"),
                      unwrap_or(get_sysctl_u32(s, "machdep.cpu.cores_per_package"), 0))
        logical_cores ==
            unwrap_or(get_sysctl_u32(s, "machdep.cpu.thread_count"),
                      unwrap_or(get_sysctl_u32(s, "machdep.cpu.logical_per_package"),
                                physical_cores))
        max_basic == get_sysctl_string(s, "machdep.cpu.max_basic")
        cache == mac_get_cache_info(s)
    IN  IF ~model.ok THEN model
        ELSE IF ~architecture.ok THEN architecture
        ELSE Ok([model |-> model.val,
                 vendor |-> mac_vendor(model.val),
                 architecture |-> architecture.val,
                 byte_order |-> mac_byte_order(s),
                 physical_cores |-> physical_cores,
                 logical_cores |-> logical_cores,
                 base_mhz |-> IF max_basic.ok THEN parse_f32(max_basic.val) ELSE None,
                 l1_size |-> cache.l1,
                 l2_size |-> cache.l2,
                 l3_size |-> cache.l3,
                 flags |-> get_cpu_flags(s)])

CacheCountText(size) ==
    [kind |-> "{} ({} cores)", size |-> format_cache_size(size[1]), count |-> size[2]]

L1PairText(i, d) ==
    [kind |-> "{} I + {} D", i |-> format_cache_size(i \div 1024),
     d |-> format_cache_size(d \div 1024)]

(* MacOSCpuInfo::get_info_lines *)
get_info_lines(s, r) ==
    LET p0i == get_sysctl_u32(s, "hw.perflevel0.l1icachesize")
        p0d == get_sysctl_u32(s, "hw.perflevel0.l1dcachesize")
        p1i == get_sysctl_u32(s, "hw.perflevel1.l1icachesize")
        p1d == get_sysctl_u32(s, "hw.perflevel1.l1dcachesize")
        p0l2 == get_sysctl_u32(s, "hw.perflevel0.l2cachesize")
        p1l2 == get_sysctl_u32(s, "hw.perflevel1.l2cachesize")
    IN  << InfoLine("Name", Text(r.model)),
           InfoLine("Architecture", Text(r.architecture)),
           InfoLine("Byte Order", Text(r.byte_order)),
           InfoLine("Vendor", Text(r.vendor)),
           InfoLine("Cores", CoresText(r.physical_cores, r.logical_cores)) >>
        \o (IF r.base_mhz.some
            THEN <<InfoLine("Base Frequency", MHz2(r.base_mhz.val))>> ELSE <<>>)
        \o (IF r.vendor = STR_Apple
            THEN (IF p0i.ok /\ p0d.ok
                  THEN <<InfoLine("P-Core L1 Cache", L1PairText(p0i.val, p0d.val))>>
                  ELSE <<>>)
                 \o (IF p1i.ok /\ p1d.ok
                     THEN <<InfoLine("E-Core L1 Cache", L1PairText(p1i.val, p1d.val))>>
                     ELSE <<>>)
                 \o (IF p0l2.ok
                     THEN <<InfoLine("P-Core L2 Cache", format_cache_size(p0l2.val \div 1024))>>
                     ELSE <<>>)
                 \o (IF p1l2.ok
                     THEN <<InfoLine("E-Core L2 Cache", format_cache_size(p1l2.val \div 1024))>>
                     ELSE <<>>)
            ELSE (IF r.l1_size.some
                  THEN <<InfoLine("L1 Cache Size", CacheCountText(r.l1_size.val))>>
                  ELSE <<>>)
                 \o (IF r.l2_size.some
                     THEN <<InfoLine("L2 Cache Size", CacheCountText(r.l2_size.val))>>
                     ELSE <<>>)
                 \o (IF r.l3_size.some
                     THEN <<InfoLine("L3 Cache Size", CacheCountText(r.l3_size.val))>>
                     ELSE <<>>))

-----------------------------------------------------------------------------
(* Windows.  s.processor is the first PowerShell query: whether it could   *)
(* be spawned, whether it exited with status 0 (which the constructor      *)
(* never reads), and its output parsed as JSON (None when the output is    *)
(* not valid JSON).  A JSON value is modelled by what the accessors return on  *)
(* it: json["Name"].as_str() and json[field].as_u64() are None when the    *)
(* field is missing, null or of another type, as for every field of an     *)
(* array result.  s.cache and s.alt_cache are the two cache queries, None  *)
(* when the query cannot be spawned or prints no valid JSON.               *)

(* A panic: its message and the line and column of the expression that     *)
(* panicked.                                                                *)
Panic(msg, at) == [ok |-> FALSE, panic |-> TRUE, err |-> msg, at |-> at]

win_vendor_amd_first(model) ==
    IF contains(to_lowercase(model), STR_amd) THEN STR_AuthenticAMD
    ELSE IF contains(to_lowercase(model), STR_intel) THEN STR_GenuineIntel
    ELSE STR_Unknown

(* vendor from the model name (windows.rs) *)
win_vendor(model) ==
    IF contains(to_lowercase(model), STR_intel) THEN STR_GenuineIntel
    ELSE IF contains(to_lowercase(model), STR_amd) THEN STR_AuthenticAMD
    ELSE STR_Unknown

(* WindowsCpuInfo::new *)
WindowsCpuInfo_new(s) ==
    IF ~s.processor.ran THEN Err("program not found")
    ELSE IF ~s.processor.json.some THEN Err("Failed to parse JSON")
    ELSE
    LET json == s.processor.json.val
        model == IF json.Name.some THEN json.Name.val ELSE STR_UnknownCPU
        physical_cores == IF json.NumberOfCores.some
                          THEN json.NumberOfCores.val ELSE 0
        logical_cores == IF json.NumberOfLogicalProcessors.some
                         THEN json.NumberOfLogicalProcessors.val ELSE 0
        base_mhz == IF json.CurrentClockSpeed.some
                    THEN Some(f32_div(f32_of(json.CurrentClockSpeed.val, 1), 1000))
                    ELSE None
        first == s.cache.some
        l1_a == IF first /\ s.cache.val.L1.some THEN s.cache.val.L1 ELSE None
        l2_a == IF first /\ s.cache.val.L2.some THEN s.cache.val.L2 ELSE None
        l3_size == IF first /\ json.L3CacheSize.some
                   THEN Some(<<json.L3CacheSize.val, json.L3CacheSize.val>>)
                   ELSE None
        second == (~l1_a.some \/ ~l2_a.some) /\ s.alt_cache.some
        l1_b == IF ~l1_a.some /\ second /\ s.alt_cache.val.L1.some
                THEN s.alt_cache.val.L1 ELSE l1_a
        l2_b == IF ~l2_a.some /\ second /\ s.alt_cache.val.L2.some
                THEN s.alt_cache.val.L2 ELSE l2_a
        per_core(total) == Some(<<total.val \div physical_cores, total.val>>)
        \* the first division evaluated: lines 78, 81, 107 and 112
        at == IF l1_a.some THEN <<78, 37>>
              ELSE IF l2_a.some THEN <<81, 37>>
              ELSE IF l1_b.some THEN <<107, 45>>
              ELSE <<112, 45>>
    IN  IF (l1_b.some \/ l2_b.some) /\ physical_cores = 0
        THEN Panic("attempt to divide by zero", at)
        ELSE Ok([model |-> model,
                 vendor |-> win_vendor(model),
                 physical_cores |-> physical_cores,
                 logical_cores |-> logical_cores,
                 base_mhz |-> base_mhz,
                 l1_size |-> IF l1_b.some THEN per_core(l1_b) ELSE None,
                 l2_size |-> IF l2_b.some THEN per_core(l2_b) ELSE None,
                 l3_size |-> l3_size])

PerTotalText(size) ==
    IF size.some
    THEN [kind |-> "{}KB ({}KB Total)", per |-> size.val[1], total |-> size.val[2]]
    ELSE UnknownText

(* WindowsCpuInfo::display_info: the info lines it builds *)
win_info_lines(r) ==
    << InfoLine("Name", Text(r.model)),
       InfoLine("Vendor", Text(r.vendor)),
       InfoLine("Base Frequency",
                IF r.base_mhz.some THEN GHz3(r.base_mhz.val) ELSE UnknownText),
       InfoLine("Cores", CoresText(r.physical_cores, r.logical_cores)),
       InfoLine("L1 Size", PerTotalText(r.l1_size)),
       InfoLine("L2 Size", PerTotalText(r.l2_size)),
       InfoLine("L3 Size", PerTotalText(r.l3_size)) >>

-----------------------------------------------------------------------------
(* The sources a run may find on each platform *)

STR_X9 == <<"X", "9">>

STR_x86_64 == <<"x", "8", "6", "_", "6", "4">>

STR_arm64 == <<"a", "r", "m", "6", "4">>

DigitChar(n) == <<"0", "1", "2", "3", "4", "5", "6", "7", "8", "9">>[n + 1]

MHzLines == { <<>>, <<Line("cpu MHz", <<"3", "6", "0", "0", ".", "0", "0", "0">>)>> }

(* The end-to-end scenario: 8 blocks, 1 package x 4 cores x 2 threads *)
CoreLayouts ==
    { <<0, 1, 2, 3, 0, 1, 2, 3>>, <<0, 0, 1, 1, 2, 2, 3, 3>>,
      <<3, 2, 1, 0, 3, 2, 1, 0>> }

E2EBlock(package, core, mhz) ==
    << Line("processor", <<"0">>),
       Line("model name", STR_X9),
       Line("physical id", <<package>>),
       Line("core id", <<DigitChar(core)>>) >> \o mhz

E2EContents ==
    { [i \in 1..8 |-> E2EBlock(package, layout[i], mhz)] :
        package \in {"0", "1"}, layout \in CoreLayouts, mhz \in MHzLines }

SmallBlocks_Intel ==
    << Line("vendor_id", STR_GenuineIntel),
       Line("cache size", <<"5", "1", "2", " ", "K", "B">>) >>

SmallBlocks ==
    { <<>>, SmallBlocks_Intel,
      << Line("model name", STR_X9), Line("physical id", <<"0">>),
         Line("core id", <<"0">>),
         Line("cpu MHz", <<"3", "6", "0", "0", ".", "0", "0", "0">>) >>,
      << Line("physical id", <<"0">>), Line("core id", <<"1">>),
         Line("cpu MHz", <<"x">>) >>,
      << Line("physical id", <<"1">>) >>,
      << Line("model name", STR_X9),
         Line("flags", <<"f", "p", "u", " ", "s", "s", "e">>) >> }

SmallContents == SeqsUpTo(SmallBlocks, MaxBlocks)

CpuEntry(name, freq) == [name |-> name, scaling_max_freq |-> freq]

STR_cpu0 == <<"c", "p", "u", "0">>

STR_cpu1 == <<"c", "p", "u", "1">>

STR_cpufreq == <<"c", "p", "u", "f", "r", "e", "q">>

CpuDirs ==
    { None,
      Some(<<>>),
      Some(<<CpuEntry(STR_cpu0, Some(<<"3", "6", "0", "0", "0", "0", "0">>))>>),
      Some(<<CpuEntry(STR_cpu0, Some(<<"2", "0", "0", "0", "0", "0", "0">>)),
             CpuEntry(STR_cpufreq, Some(<<"9", "0", "0", "0", "0", "0", "0">>)),
             CpuEntry(STR_cpu1, Some(<<"3", "6", "0", "0", "0", "0", "0">>))>>),
      Some(<<CpuEntry(STR_cpu0, None)>>),
      Some(<<CpuEntry(STR_cpu1, Some(<<"3", "6", "5", "0", "5", "0", "0">>)),
             CpuEntry(STR_cpu0, Some(<<"x">>))>>),
      Some(<<CpuEntry(STR_cpu0, Some(<<"0">>))>>),
      Some(<<CpuEntry(STR_cpu0, Some(<<"x">>))>>) }

CacheEntry(n, level, type, size) ==
    [name |-> STR_index \o <<DigitChar(n)>>, level |-> Some(level),
     type |-> Some(type), size |-> size]

E_L1d(n, size) == CacheEntry(n, L1_Data[1], L1_Data[2], size)

E_L1i(n, size) == CacheEntry(n, L1_Instruction[1], L1_Instruction[2], size)

E_L2(n, size) == CacheEntry(n, L2_Unified[1], L2_Unified[2], size)

E_L3(n, size) == CacheEntry(n, L3_Unified[1], L3_Unified[2], size)

STR_32K == <<"3", "2", "K">>

STR_512K == <<"5", "1", "2", "K">>

STR_16384K == <<"1", "6", "3", "8", "4", "K">>

CacheDirs ==
    { None,
      Some(<<>>),
      Some(<<E_L1d(0, Some(STR_32K)), E_L1i(1, Some(STR_32K)),
             E_L2(2, Some(STR_512K)), E_L3(3, Some(STR_16384K))>>),
      Some(<<E_L3(3, Some(STR_16384K)), E_L1d(0, Some(STR_32K))>>),
      Some(<<E_L1d(0, Some(STR_32K)), E_L2(2, Some(<<"2", "M">>)),
             E_L3(3, Some(<<"a", "b", "c">>))>>),
      Some(<<E_L1d(0, None), E_L2(2, Some(<<"1", "0", "2", "4">>)),
             [name |-> <<"u", "e", "v", "e", "n", "t">>, level |-> None,
              type |-> None, size |-> None]>>) }

Uname(ran, success, stdout) == [ran |-> ran, success |-> success, stdout |-> stdout]

Unames ==
    { Uname(TRUE, TRUE, STR_x86_64), Uname(TRUE, FALSE, <<>>),
      Uname(FALSE, FALSE, <<>>) }

LinuxSources ==
    [cpuinfo : {Some(c) : c \in SmallContents \cup E2EContents},
     uname : {Uname(TRUE, TRUE, STR_x86_64)},
     little_endian : {TRUE},
     cpu_dir : CpuDirs,
     cache_dir : CacheDirs]
    \cup
    [cpuinfo : {None, Some(<<>>), Some(<<E2EBlock("0", 0, <<>>)>>)},
     uname : Unames,
     little_endian : BOOLEAN,
     cpu_dir : {None},
     cache_dir : {None}]


(* Brand strings: up to MaxFrags fragments, concatenated *)
BrandFrags ==
    { STR_Intel, <<"I", "N", "T", "E", "L">>, STR_intel, STR_AMD, STR_amd,
      STR_Apple, <<"i", "n">>, <<"t", "e", "l">>, <<" ">>,
      <<"X", "e", "o", "n">>, <<"M", "1">>, <<"J", "Q", "Y">> }

RECURSIVE Concat(_)
Concat(parts) ==
    IF Len(parts) = 0 THEN <<>> ELSE Head(parts) \o Concat(Tail(parts))

Brands == {Concat(parts) : parts \in SeqsUpTo(BrandFrags, MaxFrags)}

SysctlKeys ==
    { "machdep.cpu.brand_string", "hw.byteorder", "machdep.cpu.core_count",
      "machdep.cpu.cores_per_package", "machdep.cpu.thread_count",
      "machdep.cpu.logical_per_package", "machdep.cpu.max_basic",
      "hw.cachesize", "hw.cacheconfig",
      "hw.perflevel0.l2cachesize", "hw.perflevel1.l2cachesize",
      "hw.perflevel0.l1icachesize", "hw.perflevel0.l1dcachesize",
      "hw.perflevel1.l1icachesize", "hw.perflevel1.l1dcachesize" }

(* An Intel Mac: the perflevel keys do not exist *)
IntelMacSysctl ==
    [k \in SysctlKeys |->
       CASE k = "machdep.cpu.brand_string" -> Some(STR_Intel \o <<" ">> \o STR_X9)
         [] k = "hw.byteorder" -> Some(<<"1", "2", "3", "4">>)
         [] k = "machdep.cpu.core_count" -> Some(<<"4">>)
         [] k = "machdep.cpu.cores_per_package" -> Some(<<"8">>)
         [] k = "machdep.cpu.thread_count" -> Some(<<"8">>)
         [] k = "machdep.cpu.logical_per_package" -> Some(<<"1", "6">>)
         [] k = "machdep.cpu.max_basic" -> Some(<<"2", "2">>)
         [] k = "hw.cachesize" ->
              Some(<<"9", "9", " ", "3", "2", "7", "6", "8", " ",
                     "2", "6", "2", "1", "4", "4", " ",
                     "6", "2", "9", "1", "4", "5", "6">>)
         [] k = "hw.cacheconfig" -> Some(<<"8", " ", "2", " ", "2", " ", "8">>)
         [] OTHER -> None]

(* Apple Silicon: no machdep.cpu.max_basic, performance-level cache keys *)
AppleMacSysctl ==
    [k \in SysctlKeys |->
       CASE k = "machdep.cpu.brand_string" -> Some(STR_Apple \o <<" ", "M", "1">>)
         [] k = "hw.byteorder" -> Some(<<"1", "2", "3", "4">>)
         [] k = "machdep.cpu.core_count" -> Some(<<"8">>)
         [] k = "machdep.cpu.thread_count" -> Some(<<"8">>)
         [] k = "hw.cachesize" ->
              Some(<<"9", "9", " ", "6", "5", "5", "3", "6", " ",
                     "4", "1", "9", "4", "3", "0", "4">>)
         [] k = "hw.cacheconfig" -> Some(<<"8", " ", "1", " ", "4">>)
         [] k = "hw.perflevel0.l2cachesize" -> Some(<<"1", "2", "5", "8", "2", "9", "1", "2">>)
         [] k = "hw.perflevel1.l2cachesize" -> Some(<<"4", "1", "9", "4", "3", "0", "4">>)
         [] k = "hw.perflevel0.l1icachesize" -> Some(<<"1", "9", "6", "6", "0", "8">>)
         [] k = "hw.perflevel0.l1dcachesize" -> Some(<<"1", "3", "1", "0", "7", "2">>)
         [] k = "hw.perflevel1.l1icachesize" -> Some(<<"1", "3", "1", "0", "7", "2">>)
         [] k = "hw.perflevel1.l1dcachesize" -> Some(<<"6", "5", "5", "3", "6">>)
         [] OTHER -> None]

ArmFlag(name, value) == [flag_name |-> name, value |-> value]

ArmLines ==
    << ArmFlag(Some(<<"A", "E", "S">>), <<"1">>),
       ArmFlag(Some(<<"S", "M", "E">>), <<"0">>),
       ArmFlag(None, <<"1">>),
       ArmFlag(Some(<<"C", "R", "C">>), <<"1">>) >>

OptionalArm == { None, Some(ArmLines) }

MacBases == {IntelMacSysctl, AppleMacSysctl}

CountTexts == { None, Some(<<"2">>), Some(<<"4">>), Some(<<"x">>) }

MacSysctls ==
    {[b EXCEPT !["machdep.cpu.brand_string"] = m] :
        b \in MacBases, m \in {None} \cup {Some(x) : x \in Brands}}
    \cup
    {[b EXCEPT !["machdep.cpu.core_count"] = c1,
               !["machdep.cpu.cores_per_package"] = c2,
               !["machdep.cpu.thread_count"] = t1,
               !["machdep.cpu.logical_per_package"] = t2] :
        b \in {IntelMacSysctl}, c1 \in CountTexts, c2 \in {None, Some(<<"4">>)},
        t1 \in CountTexts, t2 \in {None, Some(<<"8">>)}}
    \cup
    {[b EXCEPT !["machdep.cpu.max_basic"] = f, !["hw.byteorder"] = o] :
        b \in MacBases,
        f \in {None, Some(<<"x">>), Some(<<"1", "3">>),
               Some(<<" ", "1", "3", " ">>)},
        o \in {None, Some(<<"4", "3", "2", "1">>), Some(<<"7">>)}}
    \cup
    {[b EXCEPT !["hw.cachesize"] = sz, !["hw.cacheconfig"] = cf,
               !["hw.perflevel1.l2cachesize"] = p1] :
        b \in MacBases,
        sz \in {None, Some(<<"9", " ", "a", " ", "2", "0", "4", "8">>)},
        cf \in {None, Some(<<"8", " ", "2", " ", "0", " ", "1">>)},
        p1 \in {None, Some(<<"1", "2", "5", "8", "2", "9", "1", "2">>)}}

MacSources ==
    [sysctl_ran : {TRUE},
     sysctl : MacSysctls,
     uname : {Uname(TRUE, TRUE, STR_arm64)},
     optional_arm : {None}]
    \cup
    [sysctl_ran : {TRUE},
     sysctl : MacBases,
     uname : Unames,
     optional_arm : OptionalArm]
    \cup
    [sysctl_ran : {FALSE},
     sysctl : {[k \in SysctlKeys |-> None]},
     uname : Unames,
     optional_arm : {None}]

Processor(name, cores, logical, clock, l3) ==
    [Name |-> name, NumberOfCores |-> cores,
     NumberOfLogicalProcessors |-> logical, CurrentClockSpeed |-> clock,
     L3CacheSize |-> l3]

(* A single processor, a query without the counts, and the array printed   *)
(* for several processors                                                   *)
ProcessorJsons ==
    {Processor(n, Some(4), Some(8), Some(3600), Some(16384)) :
        n \in {None} \cup {Some(x) : x \in Brands}}
    \cup
    {Processor(Some(STR_AMD \o <<" ">> \o STR_X9), c, l, f, l3) :
        c \in {None, Some(0), Some(4)}, l \in {None, Some(2), Some(8)},
        f \in {None, Some(3600)}, l3 \in {None, Some(16384)}}

CacheJson(l1, l2) == [L1 |-> l1, L2 |-> l2]

CacheJsons ==
    { None, Some(CacheJson(None, None)), Some(CacheJson(Some(256), None)),
      Some(CacheJson(Some(256), Some(1024))) }

AltCacheJsons ==
    { None, Some(CacheJson(None, None)), Some(CacheJson(Some(512), Some(2048))) }

WindowsSources ==
    [processor : {[ran |-> TRUE, success |-> TRUE, json |-> Some(j)] :
                    j \in ProcessorJsons},
     cache : CacheJsons,
     alt_cache : AltCacheJsons]
    \cup
    [processor : {[ran |-> FALSE, success |-> FALSE, json |-> None],
                  [ran |-> TRUE, success |-> TRUE, json |-> None],
                  [ran |-> TRUE, success |-> FALSE, json |-> None],
                  [ran |-> TRUE, success |-> FALSE,
                   json |-> Some(Processor(Some(STR_Intel \o <<" ">> \o STR_X9),
                                           Some(4), Some(8), Some(3600), None))]},
     cache : {None},
     alt_cache : {None}]

-----------------------------------------------------------------------------
(* cla.rs: Args::parse over env::args().  The tokens are character         *)
(* sequences; args[0] is the program name.                                  *)

MaxArgs == 3

ARG_h == <<"-", "h">>

ARG_help == <<"-", "-", "h", "e", "l", "p">>

ARG_V == <<"-", "V">>

ARG_version == <<"-", "-", "v", "e", "r", "s", "i", "o", "n">>

ARG_license == <<"-", "-", "l", "i", "c", "e", "n", "s", "e">>

ARG_n == <<"-", "n">>

ARG_no_logo == <<"-", "-", "n", "o", "-", "l", "o", "g", "o">>

ARG_l == <<"-", "l">>

ARG_logo == <<"-", "-", "l", "o", "g", "o">>

ARG_logo_eq == <<"-", "-", "l", "o", "g", "o", "=">>

ARG_completions == <<"-", "-", "c", "o", "m", "p", "l", "e", "t", "i", "o", "n", "s">>

ArgsDefault ==
    [no_logo |-> FALSE, logo |-> None, license |-> FALSE, help |-> FALSE,
     version |-> FALSE, completions |-> None]

strip_prefix(s, pre) == SubSeq(s, Len(pre) + 1, Len(s))

ArgError(msg, arg) == Err([msg |-> msg, arg |-> arg])

(* The loop state: the vector, the index i, the struct being filled, and   *)
(* the error returned early, if any                                         *)
ArgsScan(a, i, parsed) == [args |-> a, i |-> i, parsed |-> parsed, ret |-> None]

(* "-l" | "--logo" and "--completions": i += 1, then the value at i *)
take_value_keep(st, field, msg) ==
    IF st.i + 1 >= Len(st.args)
    THEN [st EXCEPT !.ret = Some(ArgError(msg, <<>>))]
    ELSE [st EXCEPT !.parsed[field] = Some(st.args[st.i + 2])]

take_value(st, field, msg) ==
    IF st.i + 1 >= Len(st.args)
    THEN [st EXCEPT !.ret = Some(ArgError(msg, <<>>))]
    ELSE [st EXCEPT !.parsed[field] = Some(st.args[st.i + 2]), !.i = @ + 1]

(* One turn of the match on args[i], before the closing i += 1 *)
match_arg(st) ==
    LET arg == st.args[st.i + 1]
    IN  CASE arg \in {ARG_h, ARG_help} -> [st EXCEPT !.parsed.help = TRUE]
          [] arg \in {ARG_V, ARG_version} -> [st EXCEPT !.parsed.version = TRUE]
          [] arg = ARG_license -> [st EXCEPT !.parsed.license = TRUE]
          [] arg \in {ARG_n, ARG_no_logo} -> [st EXCEPT !.parsed.no_logo = TRUE]
          [] arg \in {ARG_l, ARG_logo} ->
               take_value(st, "logo", "Error: --logo requires a value")
          [] starts_with(arg, ARG_logo_eq) ->
               IF Len(strip_prefix(arg, ARG_logo_eq)) = 0
               THEN [st EXCEPT !.ret =
                       Some(ArgError("Error: --logo requires a value", <<>>))]
               ELSE [st EXCEPT !.parsed.logo = Some(strip_prefix(arg, ARG_logo_eq))]
          [] arg = ARG_completions ->
               take_value(st, "completions",
                          "Error: --completions requires a shell name (fish, bash, zsh)")
          [] OTHER ->
               [st EXCEPT !.ret = Some(ArgError("Error: Unknown argument", arg))]

RECURSIVE args_loop(_)
args_loop(st) ==
    IF st.ret.some THEN st.ret.val
    ELSE IF st.i >= Len(st.args) THEN Ok(st.parsed)
    ELSE args_loop([match_arg(st) EXCEPT !.i = @ + 1])

Args_parse(argv) == args_loop(ArgsScan(argv, 1, ArgsDefault))

STR_fish == <<"f", "i", "s", "h">>

STR_bash == <<"b", "a", "s", "h">>

STR_zsh == <<"z", "s", "h">>

ArgTokens ==
    { ARG_h, ARG_help, ARG_V, ARG_version, ARG_license, ARG_n, ARG_no_logo,
      ARG_l, ARG_logo, ARG_logo_eq, ARG_logo_eq \o STR_amd, ARG_completions,
      STR_intel, <<"-", "-", "l", "o", "g">>, <<"-", "x">>,
      STR_fish, STR_zsh, <<"B", "a", "s", "h">> }

ProgramName == <<"r", "c", "p", "u", "f", "e", "t", "c", "h">>

Argvs == {<<ProgramName>> \o ts : ts \in SeqsUpTo(ArgTokens, MaxArgs)}

InitArgs ==
    /\ pc = "start"
    /\ os = "Args::parse"
    /\ src \in Argvs
    /\ res = Pending
    /\ out = <<>>
    /\ err = <<>>
    /\ args = NoArgs
    /\ logo = None
    /\ status = None

CallArgsParse ==
    /\ pc = "start"
    /\ os = "Args::parse"
    /\ res' = Args_parse(src)
    /\ pc' = "built"
    /\ UNCHANGED <<os, src, out, err, args, logo, status>>

(* A printed line whose text is fixed when the package is built: the      *)
(* format string and the env!() names it is filled from                     *)
EnvLine(fmt, names) == [kind |-> "env", fmt |-> fmt, env |-> names]

(* print_help: the twenty lines it prints *)
print_help ==
    << EnvLine("rcpufetch {}", <<"CARGO_PKG_VERSION">>),
       EnvLine("{}", <<"CARGO_PKG_DESCRIPTION">>),
       Text(""),
       Text("USAGE:"),
       Text("    rcpufetch [OPTIONS]"),
       Text(""),
       Text("OPTIONS:"),
       Text("    -h, --help                   Print help information"),
       Text("    -V, --version                Print version information"),
       Text("        --license                Display license information"),
       Text("        --completions <SHELL>    Generate shell completions (fish, bash, zsh)"),
       Text("    -n, --no-logo                Disable logo display"),
       Text("    -l, --logo <VENDOR>          Override logo display with specific vendor"),
       Text("                                 Valid vendors: nvidia, powerpc, arm, amd, intel, apple"),
       Text(""),
       Text("EXAMPLES:"),
       Text("    rcpufetch                    Display CPU info with auto-detected logo"),
       Text("    rcpufetch --no-logo          Display CPU info without logo"),
       Text("    rcpufetch --logo intel       Display CPU info with Intel logo"),
       Text("    rcpufetch --license          Show license information") >>

(* print_version: the package name and version *)
print_version ==
    << EnvLine("{} {}", <<"CARGO_PKG_NAME", "CARGO_PKG_VERSION">>) >>

(* print_fish_completions, print_bash_completions and                    *)
(* print_zsh_completions: the script each prints, with the {{ and }} of   *)
(* the format strings printed as single braces                              *)
print_fish_completions ==
    << Text("# Fish completions for rcpufetch"),
       Text("complete -c rcpufetch -s h -l help -d 'Print help information'"),
       Text("complete -c rcpufetch -s V -l version -d 'Print version information'"),
       Text("complete -c rcpufetch -l license -d 'Display license information'"),
       Text("complete -c rcpufetch -s n -l no-logo -d 'Disable logo display'"),
       Text("complete -c rcpufetch -s l -l logo -x -a 'nvidia powerpc arm amd intel apple' -d 'Override logo display with specific vendor'"),
       Text("complete -c rcpufetch -l completions -x -a 'fish bash zsh' -d 'Generate shell completions'") >>

print_bash_completions ==
    << Text("# Bash completions for rcpufetch"),
       Text("_rcpufetch() {"),
       Text("    local cur prev opts"),
       Text("    COMPREPLY=()"),
       Text("    cur=\"${COMP_WORDS[COMP_CWORD]}\""),
       Text("    prev=\"${COMP_WORDS[COMP_CWORD-1]}\""),
       Text("    opts=\"-h --help -V --version --license -n --no-logo -l --logo --completions\""),
       Text(""),
       Text("    case \"${prev}\" in"),
       Text("        --logo|-l)"),
       Text("            COMPREPLY=($(compgen -W \"nvidia powerpc arm amd intel apple\" -- \"${cur}\"))"),
       Text("            return 0"),
       Text("            ;;"),
       Text("        --completions)"),
       Text("            COMPREPLY=($(compgen -W \"fish bash zsh\" -- \"${cur}\"))"),
       Text("            return 0"),
       Text("            ;;"),
       Text("    esac"),
       Text(""),
       Text("    COMPREPLY=($(compgen -W \"${opts}\" -- \"${cur}\"))"),
       Text("}"),
       Text("complete -F _rcpufetch rcpufetch") >>

print_zsh_completions ==
    << Text("# Zsh completions for rcpufetch"),
       Text("#compdef rcpufetch"),
       Text(""),
       Text("_rcpufetch() {"),
       Text("    _arguments \\"),
       Text("        '(-h --help){-h,--help}[Print help information]' \\"),
       Text("        '(-V --version){-V,--version}[Print version information]' \\"),
       Text("        '--license[Display license information]' \\"),
       Text("        '(-n --no-logo){-n,--no-logo}[Disable logo display]' \\"),
       Text("        '(-l --logo){-l,--logo}[Override logo display with specific vendor]:vendor:(nvidia powerpc arm amd intel apple)' \\"),
       Text("        '--completions[Generate shell completions]:shell:(fish bash zsh)'"),
       Text("}"),
       Text(""),
       Text("_rcpufetch \"$@\"") >>

(* cla::print_license: the ten lines it prints (the backquotes of the    *)
(* last line are written as apostrophes)                                   *)
cla_print_license ==
    << Text("Copyright (C) 2025 - Present: Kenneth A. Jenkins, Alan D. Aguilar, & contributors."),
       Text("Licensed under the GNU GPLv3: GNU General Public License version 3."),
       Text("rcpufetch comes with ABSOLUTELY NO WARRANTY."),
       Text(""),
       Text("A copy of the GNU General Public License Version 3 should"),
       Text("have been provided with rcpufetch. If not, you can"),
       Text("find it at: <https://www.gnu.org/licenses/gpl-3.0.html>."),
       Text(""),
       Text("This is free software, and you are welcome to redistribute it"),
       Text("under certain conditions, as described above. Type 'rcpufetch --help' for assistance.") >>

(* print_completions(shell): what it prints on the two streams, and the   *)
(* status of std::process::exit(1) for a shell it does not support          *)
print_completions(shell) ==
    LET l == to_lowercase(shell)
    IN  CASE l = STR_fish ->
               [out |-> print_fish_completions, err |-> <<>>, exit |-> None]
          [] l = STR_bash ->
               [out |-> print_bash_completions, err |-> <<>>, exit |-> None]
          [] l = STR_zsh ->
               [out |-> print_zsh_completions, err |-> <<>>, exit |-> None]
          [] OTHER ->
               [out |-> <<>>,
                err |-> <<[prefix |-> "Error: Unsupported shell", e |-> shell]>>,
                exit |-> Some(1)]

(* The informational functions of the module, called for the flag that     *)
(* Args::parse recorded; the caller then returns and the process exits     *)
(* with status 0, unless the function itself exited.                        *)
CallPrintHelp ==
    /\ pc = "built" /\ os = "Args::parse"
    /\ res.ok /\ res.val.help
    /\ out' = out \o print_help
    /\ pc' = "exited"
    /\ status' = Some(0)
    /\ UNCHANGED <<os, src, res, err, args, logo>>

CallPrintVersion ==
    /\ pc = "built" /\ os = "Args::parse"
    /\ res.ok /\ res.val.version
    /\ out' = out \o print_version
    /\ pc' = "exited"
    /\ status' = Some(0)
    /\ UNCHANGED <<os, src, res, err, args, logo>>

CallPrintLicense ==
    /\ pc = "built" /\ os = "Args::parse"
    /\ res.ok /\ res.val.license
    /\ out' = out \o cla_print_license
    /\ pc' = "exited"
    /\ status' = Some(0)
    /\ UNCHANGED <<os, src, res, err, args, logo>>

CallPrintCompletions ==
    /\ pc = "built" /\ os = "Args::parse"
    /\ res.ok /\ res.val.completions.some
    /\ LET printed == print_completions(res.val.completions.val)
       IN  /\ out' = out \o printed.out
           /\ err' = err \o printed.err
           /\ status' = IF printed.exit.some THEN printed.exit ELSE Some(0)
    /\ pc' = "exited"
    /\ UNCHANGED <<os, src, res, args, logo>>

NextArgs ==
    \/ CallArgsParse
    \/ CallPrintHelp
    \/ CallPrintVersion
    \/ CallPrintLicense
    \/ CallPrintCompletions

SpecArgs == InitArgs /\ [][NextArgs]_vars

FlagOptions ==
    {ARG_h, ARG_help, ARG_V, ARG_version, ARG_license, ARG_n, ARG_no_logo}

ValueOptions == {ARG_l, ARG_logo, ARG_completions}

(* Reading the tokens left to right, a value option taking the next token: *)
(* some token in option position is not an option, or a value option is    *)
(* last, or a "--logo=" token has an empty value                            *)
RECURSIVE Rejected(_)
Rejected(tokens) ==
    IF Len(tokens) = 0 THEN FALSE
    ELSE LET t == Head(tokens)
         IN  IF t \in ValueOptions
             THEN Len(tokens) = 1 \/ Rejected(Tail(Tail(tokens)))
             ELSE IF t \in FlagOptions THEN Rejected(Tail(tokens))
             ELSE IF starts_with(t, ARG_logo_eq)
             THEN t = ARG_logo_eq \/ Rejected(Tail(tokens))
             ELSE TRUE

ArgsDone == os = "Args::parse" /\ pc = "built"

(* C16: Args::parse returns Err exactly when a token in option position is *)
(* not a recognised option, or -l/--logo/--completions is the last token,  *)
(* or a "--logo=" token has an empty value; otherwise it returns Ok.        *)
C16_ArgsErrIff ==
    ArgsDone => (~res.ok <=> Rejected(Tail(src)))

C16_Witness ==
    /\ ArgsDone
    /\ src = <<ProgramName, ARG_l, ARG_n, ARG_logo_eq \o STR_amd>>
    /\ res.ok
    /\ res.val.logo = Some(STR_amd) /\ ~res.val.no_logo

-----------------------------------------------------------------------------
(* art/logos.rs: the logo catalogue.  An entry is the art it is drawn from *)
(* and the colours substituted for its $C1.. placeholders, in order.       *)

STR_NVIDIA == <<"N", "V", "I", "D", "I", "A">>

STR_PowerPC == <<"P", "o", "w", "e", "r", "P", "C">>

STR_ARM == <<"A", "R", "M">>

STR_nvidia == <<"n", "v", "i", "d", "i", "a">>

STR_powerpc == <<"p", "o", "w", "e", "r", "p", "c">>

STR_arm == <<"a", "r", "m">>

LogoEntry(art, colors) == [art |-> art, colors |-> colors]

logo_lines_for_vendor(vendor_id) ==
    CASE vendor_id \in {STR_AuthenticAMD, STR_amd} ->
           Some(LogoEntry("ASCII_AMD", <<"C_FG_WHITE", "C_FG_RED">>))
      [] vendor_id \in {STR_GenuineIntel, STR_intel} ->
           Some(LogoEntry("ASCII_INTEL_NEW", <<"C_FG_CYAN">>))
      [] vendor_id \in {STR_ARM, STR_arm} ->
           Some(LogoEntry("ASCII_ARM", <<"C_FG_CYAN">>))
      [] vendor_id \in {STR_NVIDIA, STR_nvidia} ->
           Some(LogoEntry("ASCII_NVIDIA", <<"C_FG_GREEN", "C_FG_WHITE">>))
      [] vendor_id \in {STR_PowerPC, STR_powerpc} ->
           Some(LogoEntry("ASCII_POWERPC", <<"C_FG_YELLOW">>))
      [] vendor_id \in {STR_Apple, STR_apple} ->
           Some(LogoEntry("ASCII_APPLE",
                          <<"C_FG_RED", "C_FG_YELLOW", "C_FG_GREEN", "C_FG_CYAN",
                            "C_FG_BLUE", "C_FG_MAGENTA", "C_FG_WHITE">>))
      [] OTHER -> None

get_logo_lines_for_vendor(vendor_id) == logo_lines_for_vendor(vendor_id)

-----------------------------------------------------------------------------
(* main.rs: the flags *)

(* print_license: the ten lines it prints (the backquotes of the last     *)
(* line are written as apostrophes)                                        *)
print_license ==
    << Text("Copyright (C) 2025 - Present: Kenneth A. Jenkins, Alan D. Aguilar, & contributors."),
       Text("Licensed under the GNU GPLv3: GNU General Public License version 3."),
       Text("rcpufetch comes with ABSOLUTELY NO WARRANTY."),
       Text(""),
       Text("A copy of the GNU General Public License Version 3 should"),
       Text("have been provided with rcpufetch. If not, you can"),
       Text("find it at: <https://www.gnu.org/licenses/gpl-3.0.html>."),
       Text(""),
       Text("This is free software, and you are welcome to redistribute it"),
       Text("under certain conditions, as described above. Type 'rcpufetch --help' for assistance.") >>

(* The match of main on logo.to_lowercase(): the vendor id of an accepted  *)
(* token, None for any other token                                          *)
logo_key_short(token) ==
    LET l == to_lowercase(token)
    IN  CASE l = STR_nvidia -> Some(STR_NVIDIA)
          [] l = STR_powerpc -> Some(STR_PowerPC)
          [] l = STR_arm -> Some(STR_ARM)
          [] l = STR_amd -> Some(STR_AMD)
          [] l = STR_intel -> Some(STR_Intel)
          [] l = STR_apple -> Some(STR_Apple)
          [] OTHER -> None

logo_key(token) ==
    LET l == to_lowercase(token)
    IN  CASE l = STR_nvidia -> Some(STR_NVIDIA)
          [] l = STR_powerpc -> Some(STR_PowerPC)
          [] l = STR_arm -> Some(STR_ARM)
          [] l = STR_amd -> Some(STR_AuthenticAMD)
          [] l = STR_intel -> Some(STR_GenuineIntel)
          [] l = STR_apple -> Some(STR_Apple)
          [] OTHER -> None

(* args.logo.as_ref().and_then(..) *)
logo_override(a) == IF a.logo.some THEN logo_key(a.logo.val) ELSE None

Diagnostic(prefix, e) == [prefix |-> prefix, e |-> e]

(* The warning of the closure for a token it does not accept *)
logo_warnings(a) ==
    IF a.logo.some /\ ~logo_key(a.logo.val).some
    THEN <<Diagnostic("Warning: Unknown logo vendor", a.logo.val)>>
    ELSE <<>>

(* display_info_with_logo: logo_override.unwrap_or(&self.vendor) *)
vendor_to_use(override, vendor) == IF override.some THEN override.val ELSE vendor

-----------------------------------------------------------------------------
(* The logo column of the two rendering entry points *)

(* MacOSCpuInfo::display_info_with_logo: the lookup of its first two lines *)
mac_display_logo(override, r) ==
    get_logo_lines_for_vendor(vendor_to_use(override, r.vendor))

(* LinuxCpuInfo::display_info_with_logo and                                *)
(* WindowsCpuInfo::display_info_with_logo, which main calls: the record    *)
(* plus an optional logo-vendor override, the override winning             *)
linux_display_logo(override, r) ==
    get_logo_lines_for_vendor(vendor_to_use(override, r.vendor))

win_display_logo(override, r) ==
    get_logo_lines_for_vendor(vendor_to_use(override, r.vendor))

-----------------------------------------------------------------------------
(* One run of main: the flags, the platform, its constructor, the report   *)

SupportedOS == {"linux", "windows", "macos"}

(* Values of --logo: the accepted tokens in several letter cases, and      *)
(* tokens main does not accept                                              *)
LogoTokens ==
    { STR_nvidia, STR_powerpc, STR_arm, STR_amd, STR_intel, STR_apple,
      STR_NVIDIA, STR_PowerPC, STR_AMD, STR_Intel, <<"a", "P", "P", "l", "E">>,
      <<"v", "i", "a">>, STR_GenuineIntel, <<>> }

ArgsSet ==
    [no_logo : BOOLEAN,
     logo : {None} \cup {Some(x) : x \in LogoTokens},
     license : BOOLEAN]

LinuxRun(content, cache_dir) ==
    [cpuinfo |-> content, uname |-> Uname(TRUE, TRUE, STR_x86_64),
     little_endian |-> TRUE, cpu_dir |-> None, cache_dir |-> cache_dir]

MacRun(sysctl, ran) ==
    [sysctl_ran |-> TRUE, sysctl |-> sysctl, uname |-> Uname(ran, ran, STR_arm64),
     optional_arm |-> None]

WindowsRun(ran, json) ==
    [processor |-> [ran |-> ran, success |-> ran, json |-> json], cache |-> None,
     alt_cache |-> None]

(* The platforms and sources the flags are tried on: a good and a failing  *)
(* source for each platform, and a platform main does not know             *)
FlagRuns ==
    { <<"linux", LinuxRun(Some(<<SmallBlocks_Intel>>), None)>>,
      <<"linux", LinuxRun(None, None)>>,
      <<"macos", MacRun(IntelMacSysctl, TRUE)>>,
      <<"macos", MacRun(AppleMacSysctl, TRUE)>>,
      <<"macos", MacRun(AppleMacSysctl, FALSE)>>,
      <<"macos", [MacRun(AppleMacSysctl, TRUE) EXCEPT !.optional_arm = Some(ArmLines)]>>,
      <<"windows", WindowsRun(TRUE, Some(Processor(Some(STR_AMD \o <<" ">> \o STR_X9),
                                                   Some(4), Some(8), Some(3600),
                                                   Some(16384))))>>,
      <<"windows", WindowsRun(FALSE, None)>>,
      <<"freebsd", LinuxRun(Some(<<SmallBlocks_Intel>>), None)>>,
      <<"android", LinuxRun(None, None)>> }

-----------------------------------------------------------------------------
(* The flag lines of the display.  A printed row is the index of the logo   *)
(* line beside it (0 when the logo has run out) and its info column: an     *)
(* info line, a wrapped flag line (its characters) or nothing.              *)

MaxFlags == 3

(* The line count and the width (chars().count(), colour codes included)    *)
(* of each logo after the placeholders are replaced                         *)
logo_shape(lines) ==
    IF ~lines.some THEN [len |-> 0, width |-> 0]
    ELSE CASE lines.val.art = "ASCII_AMD" -> [len |-> 15, width |-> 46]
           [] lines.val.art = "ASCII_INTEL_NEW" -> [len |-> 9, width |-> 58]
           [] lines.val.art = "ASCII_ARM" -> [len |-> 5, width |-> 49]
           [] lines.val.art = "ASCII_NVIDIA" -> [len |-> 18, width |-> 52]
           [] lines.val.art = "ASCII_POWERPC" -> [len |-> 5, width |-> 70]
           [] lines.val.art = "ASCII_APPLE" -> [len |-> 17, width |-> 51]

flag_label == <<"F", "l", "a", "g", "s", ":", " ">>

indent == <<" ", " ", " ", " ", " ", " ", " ">>

(* total_width - left_margin, with left_margin = logo_width + sep.len() *)
wrap_width_of(logo_width) == 100 - (logo_width + 3)

(* for word in ...: the loop of both displays; sep is " " on Linux and     *)
(* ", " on macOS, and its length is the +1 / +2 of the wrap test.  The     *)
(* loop state is the lines pushed, the current line and the words to come. *)
wrap_word(st, word, sep, wrap_width) ==
    IF Len(st.current) + Len(word) + Len(sep) > wrap_width
    THEN [lines |-> Append(st.lines, st.current), current |-> indent \o word]
    ELSE IF ends_with(trim_end(st.current), <<":">>)
    THEN [lines |-> st.lines, current |-> st.current \o word]
    ELSE [lines |-> st.lines, current |-> st.current \o sep \o word]

RECURSIVE wrap_loop(_, _, _, _)
wrap_loop(st, words, sep, wrap_width) ==
    IF Len(words) = 0 THEN st
    ELSE wrap_loop(wrap_word(st, Head(words), sep, wrap_width),
                   Tail(words), sep, wrap_width)

wrap_flags(words, sep, wrap_width) ==
    LET st == wrap_loop([lines |-> <<>>, current |-> flag_label],
                        words, sep, wrap_width)
    IN  IF Len(trim(st.current)) > 0 THEN Append(st.lines, st.current)
        ELSE st.lines

(* self.flags.split(','), each word trimmed *)
RECURSIVE split_comma(_)
split_comma(s) ==
    IF \E i \in 1..Len(s) : s[i] = ","
    THEN LET c == CHOOSE i \in 1..Len(s) :
                    s[i] = "," /\ \A j \in 1..(i - 1) : s[j] # ","
         IN  <<trim(SubSeq(s, 1, c - 1))>> \o split_comma(SubSeq(s, c + 1, Len(s)))
    ELSE <<trim(s)>>

FlagRow(line) == [kind |-> "flags", s |-> line]

BlankRow == [kind |-> "blank"]

(* The rows printed side by side: logo line i beside entry i of the info   *)
(* column, for max(logo_len, info column length) rows                       *)
print_rows(logo_len, column) ==
    [i \in 1..Max(logo_len, Len(column)) |->
       [logo |-> IF i <= logo_len THEN i ELSE 0,
        info |-> IF i <= Len(column) THEN column[i] ELSE BlankRow]]

(* The info column of LinuxCpuInfo::display_info beside a logo of the      *)
(* given width: the eleven info lines, then the wrapped flag lines (the    *)
(* line "Flags: " alone when the record has no flag)                       *)
linux_column(r, logo_width) ==
    LET flag_lines == wrap_flags(split_whitespace(r.flags), <<" ">>,
                                 wrap_width_of(logo_width))
    IN  linux_info_lines(r)
          \o [i \in 1..Len(flag_lines) |-> FlagRow(flag_lines[i])]

(* LinuxCpuInfo::display_info *)
display_info(r) ==
    LET shape == logo_shape(get_logo_lines_for_vendor(r.vendor))
    IN  print_rows(shape.len, linux_column(r, shape.width))

(* LinuxCpuInfo::display_info_with_logo, which main calls: display_info    *)
(* beside the logo of the override when there is one                        *)
linux_display_info_with_logo(r, override) ==
    LET shape == logo_shape(linux_display_logo(override, r))
    IN  print_rows(shape.len, linux_column(r, shape.width))

(* LinuxCpuInfo::display_info_no_logo, which main calls: the same column,  *)
(* one fact per line, without a logo                                        *)
linux_display_info_no_logo(r) == linux_column(r, 0)

(* The info column of MacOSCpuInfo::display_info_with_logo: the info       *)
(* lines, then the wrapped flag lines if !self.flags.is_empty()            *)
mac_column(s, r, logo_width) ==
    LET flag_lines == IF Len(r.flags) = 0 THEN <<>>
                      ELSE wrap_flags(split_comma(r.flags), <<",", " ">>,
                                      wrap_width_of(logo_width))
    IN  get_info_lines(s, r)
          \o [i \in 1..Len(flag_lines) |-> FlagRow(flag_lines[i])]

(* MacOSCpuInfo::display_info_with_logo *)
display_info_with_logo(s, r, override) ==
    LET shape == logo_shape(mac_display_logo(override, r))
    IN  print_rows(shape.len, mac_column(s, r, shape.width))

(* The loop of display_info_no_logo: the lines ended by println!(), the    *)
(* line being printed, current_line_len and first_flag                     *)
no_logo_word(st, word) ==
    IF ~st.first_flag /\ st.current_line_len + Len(word) + 2 > 80
    THEN [lines |-> Append(st.lines, st.current),
          current |-> indent \o word,
          current_line_len |-> 7 + Len(word),
          first_flag |-> st.first_flag]
    ELSE IF st.first_flag
    THEN [lines |-> st.lines,
          current |-> st.current \o word,
          current_line_len |-> st.current_line_len + Len(word),
          first_flag |-> FALSE]
    ELSE [lines |-> st.lines,
          current |-> st.current \o <<",", " ">> \o word,
          current_line_len |-> st.current_line_len + Len(word) + 2,
          first_flag |-> st.first_flag]

RECURSIVE no_logo_loop(_, _)
no_logo_loop(st, words) ==
    IF Len(words) = 0 THEN st
    ELSE no_logo_loop(no_logo_word(st, Head(words)), Tail(words))

(* MacOSCpuInfo::display_info_no_logo: the info lines, one per line, then  *)
(* the flags wrapped at 80 columns, the last line ended by the final       *)
(* println!()                                                               *)
display_info_no_logo(s, r) ==
    LET st == no_logo_loop([lines |-> <<>>, current |-> flag_label,
                            current_line_len |-> 7, first_flag |-> TRUE],
                           split_comma(r.flags))
        flag_lines == IF Len(r.flags) = 0 THEN <<>>
                      ELSE Append(st.lines, st.current)
    IN  get_info_lines(s, r)
          \o [i \in 1..Len(flag_lines) |-> FlagRow(flag_lines[i])]

(* WindowsCpuInfo::display_info: the logo lines of self.vendor zipped with *)
(* the info lines padded to the logo's length, then the info lines left    *)
(* over beside an empty logo column                                         *)
win_display_info(r) ==
    print_rows(logo_shape(get_logo_lines_for_vendor(r.vendor)).len,
               win_info_lines(r))

(* WindowsCpuInfo::display_info_with_logo, which main calls: the rows of   *)
(* display_info beside the logo of the override when there is one          *)
win_display_info_with_logo(r, override) ==
    print_rows(logo_shape(win_display_logo(override, r)).len, win_info_lines(r))

(* WindowsCpuInfo::display_info_no_logo, which main calls *)
win_display_info_no_logo(r) == win_info_lines(r)

Rep(c, n) == [i \in 1..n |-> c]

(* Flag tokens: a short one, two long ones that force wrapping, and one    *)
(* that ends with a colon                                                   *)
FlagTokens == { <<"f", "p", "u">>, Rep("x", 20), Rep("y", 40), <<"a", ":">> }

FlagLists == SeqsUpTo(FlagTokens, MaxFlags)

RECURSIVE join_with(_, _)
join_with(words, sep) ==
    IF Len(words) = 0 THEN <<>>
    ELSE IF Len(words) = 1 THEN words[1]
    ELSE words[1] \o sep \o join_with(Tail(words), sep)

LinuxSelf ==
    LinuxCpuInfo_new(LinuxRun(Some(<<SmallBlocks_Intel>>), None)).val

MacSelf == MacOSCpuInfo_new(MacRun(AppleMacSysctl, TRUE)).val

(* The records displayed: a constructed record with each vendor and each   *)
(* flag list, and on macOS each logo override                               *)
LinuxSelves ==
    {[LinuxSelf EXCEPT !.vendor = v, !.flags = join_with(f, <<" ">>)] :
        v \in {STR_GenuineIntel, STR_AuthenticAMD, STR_PowerPC, <<>>},
        f \in FlagLists}

MacSelves ==
    {[s |-> MacRun(AppleMacSysctl, TRUE),
      self |-> [MacSelf EXCEPT !.flags = join_with(f, <<",">>)],
      logo_override |-> o] :
        f \in FlagLists,
        o \in {None, Some(STR_intel), Some(STR_powerpc), Some(STR_X9)}}

WinSelf ==
    WindowsCpuInfo_new(WindowsRun(TRUE, Some(Processor(Some(STR_AMD \o <<" ">> \o STR_X9),
                                                       Some(4), Some(8), Some(3600),
                                                       Some(16384))))).val

(* A Windows record with each vendor key the constructor produces, with    *)
(* and without cache sizes                                                  *)
WinSelves ==
    {[WinSelf EXCEPT !.vendor = v, !.l1_size = c, !.l3_size = c] :
        v \in {STR_GenuineIntel, STR_AuthenticAMD, STR_Unknown},
        c \in {None, Some(<<64, 256>>)}}

InitDisplay ==
    /\ pc = "start"
    /\ \/ os = "display_info" /\ src \in LinuxSelves
       \/ os = "win_display_info" /\ src \in WinSelves
       \/ os = "display_info_with_logo" /\ src \in MacSelves
       \/ os = "display_info_no_logo"
            /\ src \in {m \in MacSelves : ~m.logo_override.some}
    /\ res = Pending
    /\ out = <<>>
    /\ err = <<>>
    /\ args = NoArgs
    /\ logo = None
    /\ status = None

CallDisplayInfo ==
    /\ pc = "start" /\ os = "display_info"
    /\ out' = display_info(src)
    /\ pc' = "shown"
    /\ UNCHANGED <<os, src, res, err, args, logo, status>>

CallDisplayInfoWithLogo ==
    /\ pc = "start" /\ os = "display_info_with_logo"
    /\ out' = display_info_with_logo(src.s, src.self, src.logo_override)
    /\ pc' = "shown"
    /\ UNCHANGED <<os, src, res, err, args, logo, status>>

CallDisplayInfoNoLogo ==
    /\ pc = "start" /\ os = "display_info_no_logo"
    /\ out' = display_info_no_logo(src.s, src.self)
    /\ pc' = "shown"
    /\ UNCHANGED <<os, src, res, err, args, logo, status>>

CallWinDisplayInfo ==
    /\ pc = "start" /\ os = "win_display_info"
    /\ out' = win_display_info(src)
    /\ pc' = "shown"
    /\ UNCHANGED <<os, src, res, err, args, logo, status>>

NextDisplay ==
    \/ CallDisplayInfo
    \/ CallDisplayInfoWithLogo
    \/ CallDisplayInfoNoLogo
    \/ CallWinDisplayInfo

SpecDisplay == InitDisplay /\ [][NextDisplay]_vars

(* What a reader finds in the printed rows: the flag rows in print order,  *)
(* each without its 7-character label or indent, cut into tokens            *)
FlagRowsAt ==
    {i \in 1..Len(out) :
       "kind" \in DOMAIN out[i].info /\ out[i].info.kind = "flags"}

RECURSIVE TokensFrom(_)
TokensFrom(i) ==
    IF i > Len(out) THEN <<>>
    ELSE (IF i \in FlagRowsAt
          THEN LET body == SubSeq(out[i].info.s, 8, Len(out[i].info.s))
               IN  IF os = "display_info" THEN split_whitespace(body)
                   ELSE IF Len(trim(body)) = 0 THEN <<>>
                   ELSE split_comma(body)
          ELSE <<>>) \o TokensFrom(i + 1)

SourceTokens ==
    IF os = "display_info" THEN split_whitespace(src.flags)
    ELSE IF Len(src.self.flags) = 0 THEN <<>>
    ELSE split_comma(src.self.flags)

FixedLines == IF os = "display_info" THEN 11 ELSE Len(get_info_lines(src.s, src.self))

DisplayDone == os \in {"display_info", "display_info_with_logo"} /\ pc = "shown"

(* C27: the flag rows printed by the Linux display_info and the macOS      *)
(* display_info_with_logo come after all fixed info lines and hold every   *)
(* flag token of the record exactly once, in source order, for every flag  *)
(* list and every logo length.                                              *)
C27_FlagOrderPreserved ==
    DisplayDone =>
        /\ \A i \in FlagRowsAt : i > FixedLines
        /\ TokensFrom(1) = SourceTokens

Init ==
    /\ pc = "start"
    /\ \/ /\ args = NoArgs
          /\ \/ os = "linux" /\ src \in LinuxSources
             \/ os = "macos" /\ src \in MacSources
             \/ os = "windows" /\ src \in WindowsSources
       \/ /\ args \in ArgsSet
          /\ \E run \in FlagRuns : os = run[1] /\ src = run[2]
    /\ res = Pending
    /\ out = <<>>
    /\ err = <<>>
    /\ logo = None
    /\ status = None

After(r) == IF r.ok THEN "built" ELSE IF "panic" \in DOMAIN r THEN "panicked" ELSE "failed"

MainLicense_after_override ==
    /\ pc = "start" /\ args.license
    /\ err' = err \o logo_warnings(args)
    /\ out' = out \o print_license
    /\ pc' = "exited"
    /\ status' = Some(0)
    /\ UNCHANGED <<os, src, res, args, logo>>

(* if args.license { print_license(); return; } *)
MainLicense ==
    /\ pc = "start" /\ args.license
    /\ out' = out \o print_license
    /\ pc' = "exited"
    /\ status' = Some(0)
    /\ UNCHANGED <<os, src, res, err, args, logo>>

(* let logo_override = ...: the closure warns about a token it rejects *)
MainLogoOverride ==
    /\ pc = "start" /\ ~args.license
    /\ err' = err \o logo_warnings(args)
    /\ pc' = "os"
    /\ UNCHANGED <<os, src, res, out, args, logo, status>>

MainUnsupported_fallback ==
    /\ pc = "os" /\ os \notin SupportedOS
    /\ res' = LinuxCpuInfo_new(src)
    /\ err' = Append(err, Diagnostic("Unsupported operating system: ", os))
    /\ pc' = "exited"
    /\ status' = Some(0)
    /\ UNCHANGED <<os, src, out, args, logo>>

(* match os { .. _ => eprintln!("Unsupported operating system: {}", os) }  *)
MainUnsupported ==
    /\ pc = "os" /\ os \notin SupportedOS
    /\ err' = Append(err, Diagnostic("Unsupported operating system: ", os))
    /\ pc' = "exited"
    /\ status' = Some(0)
    /\ UNCHANGED <<os, src, res, out, args, logo>>

LinuxNew ==
    /\ pc = "os" /\ os = "linux"
    /\ res' = LinuxCpuInfo_new(src)
    /\ pc' = After(res')
    /\ UNCHANGED <<os, src, out, err, args, logo, status>>

MacOSNew ==
    /\ pc = "os" /\ os = "macos"
    /\ res' = MacOSCpuInfo_new(src)
    /\ pc' = After(res')
    /\ UNCHANGED <<os, src, out, err, args, logo, status>>

(* The report of the default panic hook on the error stream *)
PanicReport(p) ==
    [prefix |-> "thread 'main' panicked at src/windows/windows.rs:",
     e |-> p.at,
     message |-> p.err,
     note |-> "note: run with RUST_BACKTRACE=1 environment variable to display a backtrace"]

(* A panic of the constructor is reported on the error stream and unwinds  *)
(* main: the process exits with 101.                                        *)
WindowsNew ==
    /\ pc = "os" /\ os = "windows"
    /\ res' = WindowsCpuInfo_new(src)
    /\ pc' = After(res')
    /\ status' = IF pc' = "panicked" THEN Some(101) ELSE status
    /\ err' = IF pc' = "panicked" THEN err \o <<PanicReport(res')>> ELSE err
    /\ UNCHANGED <<os, src, out, args, logo>>

(* main: Ok(cpu_info) => display_info_no_logo() if args.no_logo, else      *)
(* display_info_with_logo(logo_override); out receives what the call       *)
(* prints, logo the lookup of the logo drawn.  On Linux and Windows the    *)
(* two methods main calls are modelled after the display_info of the       *)
(* platform; on macOS they are the methods of macos.rs.                    *)
LinuxDisplayInfo ==
    /\ pc = "built" /\ os = "linux"
    /\ out' = out \o (IF args.no_logo
                      THEN linux_display_info_no_logo(res.val)
                      ELSE linux_display_info_with_logo(res.val, logo_override(args)))
    /\ logo' = IF args.no_logo THEN logo
               ELSE Some(linux_display_logo(logo_override(args), res.val))
    /\ pc' = "shown"
    /\ status' = Some(0)
    /\ UNCHANGED <<os, src, res, err, args>>

MacOSDisplayInfo ==
    /\ pc = "built" /\ os = "macos"
    /\ out' = out \o (IF args.no_logo
                      THEN display_info_no_logo(src, res.val)
                      ELSE display_info_with_logo(src, res.val, logo_override(args)))
    /\ logo' = IF args.no_logo THEN logo
               ELSE Some(mac_display_logo(logo_override(args), res.val))
    /\ pc' = "shown"
    /\ status' = Some(0)
    /\ UNCHANGED <<os, src, res, err, args>>

WindowsDisplayInfo ==
    /\ pc = "built" /\ os = "windows"
    /\ out' = out \o (IF args.no_logo
                      THEN win_display_info_no_logo(res.val)
                      ELSE win_display_info_with_logo(res.val, logo_override(args)))
    /\ logo' = IF args.no_logo THEN logo
               ELSE Some(win_display_logo(logo_override(args), res.val))
    /\ pc' = "shown"
    /\ status' = Some(0)
    /\ UNCHANGED <<os, src, res, err, args>>

ReportError_silent ==
    /\ pc = "failed"
    /\ pc' = "reported"
    /\ status' = Some(0)
    /\ UNCHANGED <<os, src, res, out, err, args, logo>>

(* main: Err(e) => eprintln!("Error fetching CPU info: {}", e), and main   *)
(* returns                                                                  *)
ReportError ==
    /\ pc = "failed"
    /\ err' = Append(err, Diagnostic("Error fetching CPU info: ", res.err))
    /\ pc' = "reported"
    /\ status' = Some(0)
    /\ UNCHANGED <<os, src, res, out, args, logo>>

Next ==
    \/ MainLicense
    \/ MainLogoOverride
    \/ MainUnsupported
    \/ LinuxNew
    \/ MacOSNew
    \/ WindowsNew
    \/ LinuxDisplayInfo
    \/ MacOSDisplayInfo
    \/ WindowsDisplayInfo
    \/ ReportError

Spec == Init /\ [][Next]_vars

-----------------------------------------------------------------------------
(* What the sources hold, stated without the program's own scans *)

Built == pc \in {"built", "shown"}

(* The size texts sysfs offers for one cache key: the readable index       *)
(* entries of that level and type                                           *)
SysfsEntries(key) ==
    IF ~src.cache_dir.some THEN {}
    ELSE {i \in 1..Len(src.cache_dir.val) :
            LET e == src.cache_dir.val[i]
            IN  /\ starts_with(e.name, STR_index)
                /\ e.level.some /\ e.type.some /\ e.size.some
                /\ CacheKey(e.level.val, e.type.val) = key
                /\ parse_cache_size(e.size.val).some}

SysfsReports(key) == SysfsEntries(key) # {}

(* the entry listed last is the one that stays *)
SysfsSize(key) ==
    parse_cache_size(
      src.cache_dir.val[CHOOSE i \in SysfsEntries(key) :
                          \A j \in SysfsEntries(key) : j <= i].size.val).val

(* C3: in the record get_cache_info fills, the total of a per-core level   *)
(* (L1 data, L1 instruction, L2) is its sysfs size times the physical core *)
(* count, and the total of L3 is its sysfs size unchanged.                 *)
C3_CacheTotals ==
    (os = "linux" /\ Built) =>
        LET r == res.val
            P == r.physical_cores
        IN  /\ SysfsReports(L1_Data) =>
                 (r.l1d_size.some /\ r.l1d_size.val[2] = SysfsSize(L1_Data) * P)
            /\ SysfsReports(L1_Instruction) =>
                 (r.l1i_size.some
                    /\ r.l1i_size.val[2] = SysfsSize(L1_Instruction) * P)
            /\ SysfsReports(L2_Unified) =>
                 (r.l2_size.some /\ r.l2_size.val[2] = SysfsSize(L2_Unified) * P)
            /\ SysfsReports(L3_Unified) =>
                 (r.l3_size.some /\ r.l3_size.val[2] = SysfsSize(L3_Unified))

C3_Witness ==
    /\ os = "linux" /\ pc = "built"
    /\ res.val.physical_cores = 2
    /\ SysfsReports(L2_Unified) /\ SysfsSize(L2_Unified) = 512
    /\ res.val.l2_size.val[2] = 1024
    /\ SysfsReports(L3_Unified) /\ SysfsSize(L3_Unified) = 16384
    /\ res.val.l3_size.val[2] = 16384

(* Letters compared without regard to case *)
UpperLetters ==
    << "A", "B", "C", "D", "E", "F", "G", "H", "I", "J", "K", "L", "M",
       "N", "O", "P", "Q", "R", "S", "T", "U", "V", "W", "X", "Y", "Z" >>

LowerLetters ==
    << "a", "b", "c", "d", "e", "f", "g", "h", "i", "j", "k", "l", "m",
       "n", "o", "p", "q", "r", "s", "t", "u", "v", "w", "x", "y", "z" >>

SameLetter(c, lower) ==
    \/ c = lower
    \/ \E k \in 1..26 : UpperLetters[k] = c /\ LowerLetters[k] = lower

HasFragment(s, frag) ==
    \E i \in 1..(Len(s) - Len(frag) + 1) :
        \A j \in 1..Len(frag) : SameLetter(s[i + j - 1], frag[j])

(* The model string the vendor is derived from *)
ModelString ==
    IF os = "macos" THEN trim(src.sysctl["machdep.cpu.brand_string"].val)
    ELSE IF src.processor.json.val.Name.some
    THEN src.processor.json.val.Name.val
    ELSE STR_UnknownCPU

IntelKey == IF os = "macos" THEN STR_Intel ELSE STR_GenuineIntel

(* C6: on macOS and Windows a model string containing "intel", in any      *)
(* letter case and at any position, yields the platform's Intel key.       *)
C6_IntelAnyCaseAnywhere ==
    (os \in {"macos", "windows"} /\ Built /\ HasFragment(ModelString, STR_intel))
      => res.val.vendor = IntelKey

C6_Witness ==
    /\ os = "macos" /\ pc = "built"
    /\ ModelString = <<"X", "e", "o", "n", "I", "N", "T", "E", "L">>
    /\ res.val.vendor = STR_Intel

(* C7: on macOS and on Windows a model string containing both "AMD" and    *)
(* "Intel" resolves to Intel, and a model string containing none of the    *)
(* known fragments resolves to "Unknown".                                   *)
C7_FixedPriority ==
    (os \in {"macos", "windows"} /\ Built) =>
        /\ (HasFragment(ModelString, STR_amd) /\ HasFragment(ModelString, STR_intel))
             => res.val.vendor = IntelKey
        /\ (~HasFragment(ModelString, STR_intel)
              /\ ~HasFragment(ModelString, STR_amd)
              /\ ~HasFragment(ModelString, STR_apple))
             => res.val.vendor = STR_Unknown

C7_Witness ==
    /\ os = "windows" /\ pc = "built"
    /\ ModelString = STR_AMD \o STR_Intel
    /\ res.val.vendor = STR_GenuineIntel

(* The end-to-end source: 8 processor blocks, one package, 4 cores with 2  *)
(* threads each, sysfs L1 data "32K" and L3 "16384K"                        *)
E2ESource ==
    /\ os = "linux"
    /\ src.cpuinfo.some
    /\ LET content == src.cpuinfo.val
       IN  /\ Len(content) = 8
           /\ NonBlankBlocks(content) = 8
           /\ Cardinality(PackagesObserved(content)) = 1
           /\ Cardinality(PairsObserved(content)) = 4
           /\ \A pr \in PairsObserved(content) :
                Cardinality({i \in 1..8 :
                    <<IdOf(content[i], "physical id").val,
                      IdOf(content[i], "core id").val>> = pr}) = 2
    /\ src.cache_dir.some
    /\ {src.cache_dir.val[i].size.val : i \in SysfsEntries(L1_Data)} = {STR_32K}
    /\ {src.cache_dir.val[i].size.val : i \in SysfsEntries(L3_Unified)} = {STR_16384K}

(* C8: the end-to-end source gives physical_cores 4, logical_cores 8, an   *)
(* L1d total of 128 KB and an L3 total of 16384 KB.                         *)
C8_EndToEnd ==
    (E2ESource /\ Built) =>
        /\ res.ok
        /\ res.val.physical_cores = 4
        /\ res.val.logical_cores = 8
        /\ res.val.l1d_size.some /\ res.val.l1d_size.val[2] = 128
        /\ res.val.l3_size.some /\ res.val.l3_size.val[2] = 16384

C8_Witness ==
    /\ E2ESource /\ pc = "shown"
    /\ IdOf(src.cpuinfo.val[1], "core id") = IdOf(src.cpuinfo.val[2], "core id")
    /\ res.val.physical_cores = 4 /\ res.val.logical_cores = 8
    /\ res.val.l1d_size = Some(<<0, 128>>)
    /\ res.val.l3_size = Some(<<0, 16384>>)

(* No frequency source yields a value *)
NoFrequencySource ==
    CASE os = "linux" ->
           /\ src.cpuinfo.some
           /\ \A i \in 1..Len(src.cpuinfo.val) :
                \A j \in 1..Len(src.cpuinfo.val[i]) :
                    src.cpuinfo.val[i][j].key = "cpu MHz"
                      => ~parse_f32(src.cpuinfo.val[i][j].value).some
           /\ (src.cpu_dir.some =>
                 \A i \in 1..Len(src.cpu_dir.val) :
                    LET e == src.cpu_dir.val[i]
                    IN  ~ /\ starts_with(e.name, STR_cpu)
                          /\ AllDigits(SubSeq(e.name, 4, Len(e.name)))
                          /\ e.scaling_max_freq.some
                          /\ IsNumber(e.scaling_max_freq.val)
                          /\ parse_u64(e.scaling_max_freq.val).val > 0)
      [] os = "macos" ->
           \/ ~src.sysctl_ran
           \/ ~src.sysctl["machdep.cpu.max_basic"].some
           \/ ~parse_f32(trim(src.sysctl["machdep.cpu.max_basic"].val)).some
      [] os = "windows" ->
           /\ src.processor.json.some
           /\ ~src.processor.json.val.CurrentClockSpeed.some
      [] OTHER -> FALSE

FrequencyOf(r) == IF os = "linux" THEN r.max_mhz ELSE r.base_mhz

FrequencyLabels == {"Max Frequency", "Base Frequency"}

(* The info column of what was printed: the info of a row printed beside   *)
(* the logo, the line itself of a display without logo                      *)
InfoColumn ==
    [i \in 1..Len(out) |->
       IF "info" \in DOMAIN out[i] THEN out[i].info ELSE out[i]]

(* C9: when no frequency source yields a value the record is built with    *)
(* the frequency absent, and the report shows the frequency as "Unknown".  *)
C9_FrequencyUnknown ==
    (NoFrequencySource /\ Built) =>
        /\ res.ok
        /\ FrequencyOf(res.val) = None
        /\ pc = "shown" =>
             \E i \in 1..Len(InfoColumn) :
                /\ "label" \in DOMAIN InfoColumn[i]
                /\ InfoColumn[i].label \in FrequencyLabels
                /\ InfoColumn[i].text = UnknownText

(* C10: every record a platform constructor returns has                    *)
(* logical_cores >= physical_cores.                                         *)
C10_LogicalAtLeastPhysical ==
    (Built /\ res.ok) => res.val.logical_cores >= res.val.physical_cores

(* C11: every record a platform constructor returns as Ok has             *)
(* physical_cores >= 1; a core count that cannot be obtained makes the      *)
(* constructor fail.                                                        *)
C11_PhysicalAtLeastOne ==
    (Built /\ res.ok) => res.val.physical_cores >= 1

(* The source was read and holds no processor block with a line in it: no  *)
(* model, no vendor, zero units                                             *)
NoIdentifyingData ==
    /\ os = "linux"
    /\ src.cpuinfo.some /\ src.uname.ran
    /\ NonBlankBlocks(src.cpuinfo.val) = 0

Constructed == pc \notin {"start", "os"}

(* C12: a readable source with no identifying data at all makes the        *)
(* constructor fail with an error; no record is returned.                   *)
C12_InsufficientData ==
    (NoIdentifyingData /\ Constructed) => (~res.ok /\ pc \notin {"built", "shown"})

(* The keys the normalizers give a recognised vendor: the macOS and       *)
(* Windows keys other than "Unknown", and on Linux the vendor_id of an     *)
(* Intel or AMD processor                                                   *)
RecognisedVendorKey ==
    /\ Built /\ res.ok
    /\ \/ os \in {"macos", "windows"} /\ res.val.vendor # STR_Unknown
       \/ os = "linux" /\ res.val.vendor \in {STR_GenuineIntel, STR_AuthenticAMD}

(* C13: the vendor key of the record is a key of the logo catalogue: for   *)
(* every key other than "Unknown" produced for a recognised vendor the     *)
(* lookup returns a logo.                                                   *)
C13_VendorKeyHasLogo ==
    RecognisedVendorKey => get_logo_lines_for_vendor(res.val.vendor).some

ErrorDiagnostics ==
    {i \in DOMAIN err : err[i].prefix = "Error fetching CPU info: "}

(* C14: after a constructor returned an error main prints one diagnostic   *)
(* on the error stream and calls no display function: nothing is printed   *)
(* on standard output and no logo is looked up.                             *)
C14_ErrorNoDisplay ==
    (pc \in {"failed", "reported"}) =>
        /\ ~res.ok
        /\ out = <<>> /\ logo = None
        /\ pc = "reported" =>
             /\ Cardinality(ErrorDiagnostics) = 1
             /\ err[Len(err)] = Diagnostic("Error fetching CPU info: ", res.err)

C14_Witness ==
    /\ pc = "reported" /\ os = "linux"
    /\ ~args.no_logo /\ args.logo = Some(STR_intel)
    /\ err = <<Diagnostic("Error fetching CPU info: ", res.err)>>
    /\ out = <<>>

(* C15: on an operating system other than linux, windows and macos main    *)
(* reports "Unsupported operating system: <os>", and no constructor is     *)
(* called and nothing is displayed before or after that report.             *)
C15_UnsupportedOS ==
    (os \notin SupportedOS) =>
        /\ res = Pending /\ out \in {<<>>, print_license} /\ logo = None
        /\ pc \in {"start", "os", "exited"}
        /\ (pc = "exited" /\ ~args.license) =>
             err[Len(err)] = Diagnostic("Unsupported operating system: ", os)
        /\ ErrorDiagnostics = {}

C15_Witness ==
    /\ os = "freebsd" /\ pc = "exited" /\ ~args.license
    /\ src.cpuinfo.some
    /\ res = Pending /\ out = <<>>
    /\ err = <<Diagnostic("Unsupported operating system: ", "freebsd")>>

(* C17: with the license flag main prints the license text and returns:   *)
(* no constructor is called, no logo override is processed (no warning, no *)
(* lookup) and the operating system is not looked at, whatever the other   *)
(* flags are.                                                               *)
C17_LicenseShortCircuit ==
    args.license =>
        /\ res = Pending /\ logo = None /\ err = <<>>
        /\ pc \in {"start", "exited"}
        /\ pc = "exited" => (out = print_license /\ status = Some(0))

C17_Witness ==
    /\ args.license /\ args.no_logo /\ args.logo = Some(<<"v", "i", "a">>)
    /\ os = "freebsd"
    /\ pc = "exited" /\ out = print_license /\ err = <<>>

(* C18: on a hard failure of the constructor the error is printed on the   *)
(* error stream and the program exits with a non-zero status.               *)
C18_HardFailureExit ==
    (pc = "reported") =>
        /\ ErrorDiagnostics # {}
        /\ status.some /\ status.val # 0

AcceptedTokens ==
    {STR_nvidia, STR_powerpc, STR_arm, STR_amd, STR_intel, STR_apple}

(* The catalogue entry of each accepted vendor token *)
ArtOf(token) ==
    CASE token = STR_nvidia -> "ASCII_NVIDIA"
      [] token = STR_powerpc -> "ASCII_POWERPC"
      [] token = STR_arm -> "ASCII_ARM"
      [] token = STR_amd -> "ASCII_AMD"
      [] token = STR_intel -> "ASCII_INTEL_NEW"
      [] token = STR_apple -> "ASCII_APPLE"

Warnings == {i \in DOMAIN err : err[i].prefix = "Warning: Unknown logo vendor"}

(* The accepted tokens a --logo value spells, letter case aside *)
AcceptedAs(value) ==
    {t \in AcceptedTokens :
        /\ Len(t) = Len(value)
        /\ \A j \in 1..Len(t) : SameLetter(value[j], t[j])}

(* C19: once main has handled --logo, on every platform: a value that      *)
(* spells an accepted vendor token (in any letter case) is mapped without  *)
(* a warning to a key whose catalogue entry is that vendor's; any other    *)
(* value is dropped with one warning naming it.  And the logo the macOS    *)
(* display_info_with_logo then looks up is that vendor's entry whatever    *)
(* the detected vendor is, or the detected vendor's entry when the value   *)
(* was dropped.                                                             *)
C19_LogoOverride ==
    (pc # "start" /\ ~args.license /\ args.logo.some) =>
        IF AcceptedAs(args.logo.val) # {}
        THEN LET t == CHOOSE a \in AcceptedAs(args.logo.val) : TRUE
                 key == logo_override(args)
             IN  /\ Warnings = {}
                 /\ key.some
                 /\ get_logo_lines_for_vendor(key.val).some
                 /\ get_logo_lines_for_vendor(key.val).val.art = ArtOf(t)
                 /\ (pc = "shown" /\ os = "macos" /\ ~args.no_logo) =>
                       /\ logo.some /\ logo.val.some
                       /\ logo.val.val.art = ArtOf(t)
        ELSE /\ logo_override(args) = None
             /\ Cardinality(Warnings) = 1
             /\ err[1] = Diagnostic("Warning: Unknown logo vendor", args.logo.val)
             /\ (pc = "shown" /\ os = "macos" /\ ~args.no_logo) =>
                   logo = Some(get_logo_lines_for_vendor(res.val.vendor))

C19_Witness ==
    /\ pc = "shown" /\ os = "macos" /\ ~args.no_logo
    /\ args.logo = Some(STR_AMD)
    /\ res.val.vendor = STR_Apple
    /\ logo.val.val.art = "ASCII_AMD"

(* C20: Linux cache precedence is per level: a level sysfs supplied holds  *)
(* the sysfs value, and a level sysfs did not supply holds the value of    *)
(* /proc/cpuinfo (its "cache size" line, as L2) when that one has it.       *)
C20_PerFieldPrecedence ==
    (os = "linux" /\ Built) =>
        LET r == res.val
            legacy == parse_cpuinfo(src.cpuinfo.val).val
        IN  /\ SysfsReports(L1_Data) => r.l1d_size.some
            /\ SysfsReports(L1_Instruction) => r.l1i_size.some
            /\ SysfsReports(L3_Unified) => r.l3_size.some
            /\ SysfsReports(L2_Unified) =>
                 r.l2_size = Some(<<0, SysfsSize(L2_Unified) * r.physical_cores>>)
            /\ (~SysfsReports(L2_Unified) /\ legacy.l2_size.some) =>
                 r.l2_size = legacy.l2_size

SetMax(S) == CHOOSE m \in S : \A x \in S : x <= m

(* The positive kHz values of the cpuN/cpufreq/scaling_max_freq files *)
ScalingReadings ==
    IF ~src.cpu_dir.some THEN {}
    ELSE {parse_u64(src.cpu_dir.val[i].scaling_max_freq.val).val :
            i \in {j \in 1..Len(src.cpu_dir.val) :
                     LET e == src.cpu_dir.val[j]
                     IN  /\ starts_with(e.name, STR_cpu)
                         /\ AllDigits(SubSeq(e.name, 4, Len(e.name)))
                         /\ e.scaling_max_freq.some
                         /\ IsNumber(e.scaling_max_freq.val)
                         /\ parse_u64(e.scaling_max_freq.val).val > 0}}

F32SetMax(S) == CHOOSE m \in S : \A x \in S : f32_le(x, m)

(* The parseable "cpu MHz" values of all units *)
MHzReadings ==
    UNION {{parse_f32(src.cpuinfo.val[i][j].value).val :
              j \in {k \in 1..Len(src.cpuinfo.val[i]) :
                       /\ src.cpuinfo.val[i][k].key = "cpu MHz"
                       /\ parse_f32(src.cpuinfo.val[i][k].value).some}} :
           i \in 1..Len(src.cpuinfo.val)}

(* C21: the Linux frequency is the largest positive scaling_max_freq       *)
(* reading (kHz) over 1,000,000 when there is one, else the largest        *)
(* parseable "cpu MHz" reading over 1000, else absent, each quotient an    *)
(* f32.                                                                     *)
C21_FrequencyReduction ==
    (os = "linux" /\ Built) =>
        res.val.max_mhz =
            IF ScalingReadings # {}
            THEN Some(f32_div(f32_of(SetMax(ScalingReadings), 1), 1000000))
            ELSE IF MHzReadings # {}
            THEN Some(f32_div(F32SetMax(MHzReadings), 1000))
            ELSE None

C21_Witness ==
    /\ os = "linux" /\ Built
    /\ ScalingReadings = {3650500}
    /\ MHzReadings = {f32_of(3600, 1)}
    /\ GHz3(res.val.max_mhz.val).milli = 3651

(* The constructor has returned *)
Returned == pc \in {"built", "shown", "failed", "reported", "panicked"}

UnameUnavailable == ~src.uname.ran \/ ~src.uname.success

(* C25: on Linux and macOS, when the identifying source is readable and    *)
(* uname cannot be run or fails, the constructor still returns a record,   *)
(* with an empty architecture.                                              *)
C25_ArchitectureAbsorbed ==
    /\ (os = "linux" /\ Returned /\ src.cpuinfo.some /\ UnameUnavailable)
         => (res.ok /\ res.val.architecture = <<>>)
    /\ (os = "macos" /\ Returned /\ src.sysctl_ran
          /\ src.sysctl["machdep.cpu.brand_string"].some
          /\ UnameUnavailable)
         => (res.ok /\ res.val.architecture = <<>>)

(* C26: a primary command that exits non-zero (the PowerShell processor    *)
(* query, the sysctl brand-string query) makes the constructor return an   *)
(* error, whatever the command wrote.                                       *)
C26_NonZeroExitFails ==
    /\ (os = "windows" /\ Returned /\ src.processor.ran /\ ~src.processor.success)
         => ~res.ok
    /\ (os = "macos" /\ Returned /\ src.sysctl_ran
          /\ ~src.sysctl["machdep.cpu.brand_string"].some)
         => ~res.ok

CacheFields == {"l1_size", "l1d_size", "l1i_size", "l2_size", "l3_size"}

(* The cache pairs a constructed record holds *)
CachePairs ==
    {res.val[f].val : f \in {g \in CacheFields \cap DOMAIN res.val : res.val[g].some}}

(* C28: every cache pair of a constructed record is (per-unit KB, total    *)
(* KB): the per-unit size is not a placeholder zero and the second         *)
(* component is a size no smaller than the per-unit size, not a count.     *)
C28_PerUnitAndTotal ==
    (Built /\ res.ok) => \A p \in CachePairs : p[1] > 0 /\ p[2] >= p[1]

(* C29: WindowsCpuInfo::new never divides by zero: it returns a record or  *)
(* an error, also when NumberOfCores is missing and a cache size is        *)
(* reported.                                                                *)
C29_NoDivisionByZero ==
    (os = "windows" /\ Returned) => "panic" \notin DOMAIN res

(* C30: for every /proc/cpuinfo content, get_physical_core_count returns  *)
(* exactly the physical_cores that parse_cpuinfo computed from it.         *)
C30_CountsAgree ==
    (os = "parse_cpuinfo" /\ pc = "counted")
      => out = Some(res.val.physical_cores)

C30_Witness ==
    /\ os = "parse_cpuinfo" /\ pc = "counted"
    /\ PairsObserved(src) = {}
    /\ PackagesObserved(src) = {0, 1}
    /\ out = Some(2)
    /\ res.val.physical_cores = 2

====
